---- MODULE Spec2Model ----
(***************************************************************************)
(* Literature-review pipeline of plugins/mats/scripts/lit-review:          *)
(*   dedup_papers.py    deduplicate_papers (DOI + fuzzy title matching)    *)
(*   download_pdfs.py   download_all (bounded concurrent downloads)        *)
(*                                                                         *)
(* Python strings are sequences of one-character strings.  JSON values are *)
(* tagged records: an absent key, null, a string, a number, a mapping.     *)
(* Similarities and thresholds are exact rationals <<numerator, denom>>.   *)
(***************************************************************************)
EXTENDS Integers, Sequences, FiniteSets, TLC

\* ------------------------------------------------------------------------
\* Bounds of the model
\* ------------------------------------------------------------------------

\* longest input list given to deduplicate_papers
MaxPapers == 3

\* ------------------------------------------------------------------------
\* JSON / Python values
\* ------------------------------------------------------------------------

Absent == [t |-> "absent"]
None == [t |-> "null"]
Str(s) == [t |-> "str", s |-> s]
Num(n) == [t |-> "num", n |-> n]
\* a mapping with its DOI and url entries (Absent: no such key); empty: {}
Map(e, d, u) == [t |-> "map", empty |-> e, DOI |-> d, url |-> u]
\* the outcome of an expression that raises (AttributeError, TypeError)
Raise == [t |-> "raise"]

\* dict.get(key) of a key that is not there is None
Get(v) == IF v = Absent THEN None ELSE v

\* Python truth value of an object
Truthy(v) ==
  CASE v.t = "absent" -> FALSE
    [] v.t = "null" -> FALSE
    [] v.t = "str" -> v.s # <<>>
    [] v.t = "num" -> v.n # 0
    [] v.t = "map" -> ~v.empty
    [] OTHER -> FALSE

\* ------------------------------------------------------------------------
\* Characters and strings
\* ------------------------------------------------------------------------

\* the characters of the model, in code point order
Alphabet ==
  << "\t", " ", "!", ".", "/", "0", "1", "A", "B", "D", "F", "S", "_",
     "a", "b", "c", "d", "e", "f", "g", "h", "i", "l", "m", "n", "o",
     "r", "s", "t" >>

Ord(c) == CHOOSE k \in 1..Len(Alphabet) : Alphabet[k] = c

\* str.lower() on one character
LowerChar(c) ==
  CASE c = "A" -> "a"
    [] c = "B" -> "b"
    [] c = "D" -> "d"
    [] c = "F" -> "f"
    [] c = "S" -> "s"
    [] OTHER -> c

Lower(s) == [k \in 1..Len(s) |-> LowerChar(s[k])]

\* \s of the re module
IsSpace(c) == c \in {" ", "\t"}

\* \w of the re module: letters, digits and the underscore
IsWord(c) == c \notin {" ", "\t", "!", ".", "/"}

\* re.sub(r"[^\w\s]", " ", s)
PunctToSpace(s) ==
  [k \in 1..Len(s) |-> IF IsWord(s[k]) \/ IsSpace(s[k]) THEN s[k] ELSE " "]

\* str.split(): the maximal runs of non-whitespace characters
RECURSIVE SplitFrom(_, _, _, _)
SplitFrom(s, k, cur, acc) ==
  IF k > Len(s)
    THEN IF cur = <<>> THEN acc ELSE Append(acc, cur)
    ELSE IF IsSpace(s[k])
      THEN SplitFrom(s, k + 1, <<>>, IF cur = <<>> THEN acc ELSE Append(acc, cur))
      ELSE SplitFrom(s, k + 1, Append(cur, s[k]), acc)

Split(s) == SplitFrom(s, 1, <<>>, <<>>)

\* " ".join(tokens)
RECURSIVE Join(_)
Join(tokens) ==
  IF tokens = <<>> THEN <<>>
  ELSE IF Len(tokens) = 1 THEN tokens[1]
  ELSE tokens[1] \o <<" ">> \o Join(Tail(tokens))

\* s1 <= s2 in Python's string order (lexicographic by code point)
RECURSIVE StrLeq(_, _)
StrLeq(s1, s2) ==
  IF s1 = <<>> THEN TRUE
  ELSE IF s2 = <<>> THEN FALSE
  ELSE IF s1[1] = s2[1] THEN StrLeq(Tail(s1), Tail(s2))
  ELSE Ord(s1[1]) < Ord(s2[1])

\* sorted(tokens)
RECURSIVE Insert(_, _)
Insert(tok, sorted) ==
  IF sorted = <<>> THEN <<tok>>
  ELSE IF StrLeq(tok, sorted[1]) THEN <<tok>> \o sorted
  ELSE <<sorted[1]>> \o Insert(tok, Tail(sorted))

RECURSIVE Sorted(_)
Sorted(tokens) ==
  IF tokens = <<>> THEN <<>> ELSE Insert(tokens[1], Sorted(Tail(tokens)))

Max(a, b) == IF a >= b THEN a ELSE b

\* length of the longest common subsequence, row by row; each cell and
\* each row is computed before the next one is started
RECURSIVE LcsRow(_, _, _, _, _)
LcsRow(prev, ch, b, j, acc) ==
  IF j > Len(b) THEN acc
  ELSE LET left == IF j = 1 THEN 0 ELSE acc[j - 1]
           diag == IF j = 1 THEN 0 ELSE prev[j - 1]
           v == IF ch = b[j] THEN diag + 1 ELSE Max(left, prev[j])
           next == Append(acc, v)
       IN CASE Len(next) = j -> LcsRow(prev, ch, b, j + 1, next)

RECURSIVE LcsRows(_, _, _, _)
LcsRows(a, b, k, prev) ==
  IF k > Len(a) THEN prev
  ELSE LET row == LcsRow(prev, a[k], b, 1, <<>>)
       IN CASE Len(row) = Len(b) -> LcsRows(a, b, k + 1, row)

Lcs(a, b) ==
  IF a = <<>> \/ b = <<>> THEN 0
  ELSE LcsRows(a, b, 1, [j \in 1..Len(b) |-> 0])[Len(b)]

\* ------------------------------------------------------------------------
\* rapidfuzz: fuzz.token_sort_ratio(s1, s2) / 100 as an exact rational.
\* The tokens of each string are sorted and joined by one space; the
\* ratio is the normalized Indel similarity 2 * LCS / (len1 + len2),
\* and 1 for two empty strings.
\* ------------------------------------------------------------------------

token_sort_ratio(s1, s2) ==
  LET a == Join(Sorted(Split(s1)))
      b == Join(Sorted(Split(s2)))
  IN IF Len(a) + Len(b) = 0 THEN <<1, 1>>
     ELSE <<2 * Lcs(a, b), Len(a) + Len(b)>>

\* q1 >= q2 for rationals with positive denominators
RatGeq(q1, q2) == q1[1] * q2[2] >= q2[1] * q1[2]

\* ------------------------------------------------------------------------
\* dedup_papers.py: the accessors
\* ------------------------------------------------------------------------

\* normalize_title without line 31: the punctuation is kept
normalize_title_keeps_punctuation(title) ==
  IF ~Truthy(title) THEN Str(<<>>)
  ELSE IF title.t # "str" THEN Raise
  ELSE Str(Join(Split(Lower(title.s))))

\* normalize_title(title): a string, or Raise when title has no lower()
normalize_title(title) ==
  IF ~Truthy(title) THEN Str(<<>>)
  ELSE IF title.t # "str" THEN Raise
  ELSE Str(Join(Split(PunctToSpace(Lower(title.s)))))

\* get_doi without the .lower() of lines 40 and 42
get_doi_case_sensitive(paper) ==
  IF Truthy(Get(paper.doi))
    THEN IF paper.doi.t = "str" THEN paper.doi ELSE Raise
  ELSE IF Truthy(Get(paper.externalIds))
    THEN IF paper.externalIds.t # "map" THEN Raise
         ELSE IF Truthy(Get(paper.externalIds.DOI))
           THEN IF paper.externalIds.DOI.t = "str"
                  THEN paper.externalIds.DOI
                  ELSE Raise
           ELSE None
  ELSE None

\* get_doi(paper): the lower-cased DOI, None, or Raise
get_doi(paper) ==
  IF Truthy(Get(paper.doi))
    THEN IF paper.doi.t = "str" THEN Str(Lower(paper.doi.s)) ELSE Raise
  ELSE IF Truthy(Get(paper.externalIds))
    THEN IF paper.externalIds.t # "map" THEN Raise
         ELSE IF Truthy(Get(paper.externalIds.DOI))
           THEN IF paper.externalIds.DOI.t = "str"
                  THEN Str(Lower(paper.externalIds.DOI.s))
                  ELSE Raise
           ELSE None
  ELSE None

\* get_title(paper): paper.get("title", "")
get_title(paper) == IF paper.title = Absent THEN Str(<<>>) ELSE paper.title

\* ------------------------------------------------------------------------
\* Inputs of deduplicate_papers
\* ------------------------------------------------------------------------

Paper(doi, externalIds, title) ==
  [doi |-> doi, externalIds |-> externalIds, title |-> title]

ExtDoi(d) == Map(FALSE, d, Absent)
EmptyMap == Map(TRUE, Absent, Absent)

\* the records the input lists are drawn from
Records ==
  { Paper(Str(<<"d", "1">>), Absent, Str(<<"a", " ", "b">>)),
    Paper(Str(<<"D", "1">>), Absent, Str(<<"c", "b">>)),
    Paper(Absent, ExtDoi(Str(<<"d", "1">>)), Str(<<"a", "b", "c">>)),
    Paper(Absent, Absent, Str(<<"B", " ", "\t", "a", "!">>)),
    Paper(Absent, Absent, Str(<<"A", " ", " ", "b", ".">>)),
    Paper(Str(<<"d", "2">>), Absent, Str(<<"a", "b">>)),
    Paper(Str(<<"d", "2">>), ExtDoi(Str(<<"d", "1">>)), Str(<<"c", "b">>)),
    Paper(Absent, Absent, Absent),
    Paper(None, None, Str(<<"!">>)),
    Paper(Str(<<>>), EmptyMap, Str(<<>>)),
    Paper(Num(7), Absent, Str(<<"a", "b">>)),
    Paper(Absent, Str(<<"e">>), Str(<<"a", "b">>)),
    Paper(Str(<<"d", "1">>), ExtDoi(None), Num(5)) }

\* the values of --threshold: 0.5, 0.8, 1.0 and 1.1
Thresholds == { <<1, 2>>, <<4, 5>>, <<1, 1>>, <<11, 10>> }

\* the example of the specification, with its threshold 0.85
ExamplePapers ==
  << Paper(Str(<<"1", "0", ".", "1", "/", "a">>), Absent,
           Str(<<"F", "o", "o", " ", "B", "a", "r">>)),
     Paper(Absent, Absent,
           Str(<<"f", "o", "o", " ", " ", " ", "b", "a", "r", "!", "!">>)),
     Paper(Str(<<"1", "0", ".", "1", "/", "b">>), Absent,
           Str(<<"S", "o", "m", "e", "t", "h", "i", "n", "g", " ",
                 "e", "l", "s", "e">>)) >>

ExampleThreshold == <<17, 20>>

InputLists == UNION { [1..n -> Records] : n \in 0..MaxPapers }

\* ------------------------------------------------------------------------
\* download_pdfs.py: the accessors
\* ------------------------------------------------------------------------

MAX_RETRIES == 5

\* sub occurs in s at position k
OccursAt(sub, s, k) ==
  /\ k + Len(sub) - 1 <= Len(s)
  /\ \A j \in 1..Len(sub) : s[k + j - 1] = sub[j]

\* sub in s
Contains(sub, s) == \E k \in 1..(Len(s) + 1) : OccursAt(sub, s, k)

\* s.endswith(sub)
EndsWith(s, sub) ==
  Len(sub) <= Len(s) /\ OccursAt(sub, s, Len(s) - Len(sub) + 1)

\* s[:n]
Prefix(s, n) == IF Len(s) <= n THEN s ELSE SubSeq(s, 1, n)

\* s.replace("/", "_")
SlashToUnderscore(s) == [k \in 1..Len(s) |-> IF s[k] = "/" THEN "_" ELSE s[k]]

\* s.split("/")[-1]: what follows the last "/"
RECURSIVE AfterLastSlash(_)
AfterLastSlash(s) ==
  IF ~(\E k \in 1..Len(s) : s[k] = "/") THEN s
  ELSE AfterLastSlash(Tail(s))

\* re.sub(r'[<>:"/\\|?*]', "", name)
RECURSIVE RemoveProblematic(_)
RemoveProblematic(s) ==
  IF s = <<>> THEN <<>>
  ELSE IF s[1] \in {"<", ">", ":", "\"", "/", "\\", "|", "?", "*"}
    THEN RemoveProblematic(Tail(s))
    ELSE <<s[1]>> \o RemoveProblematic(Tail(s))

\* re.sub(r"\s+", "_", name): every run of whitespace becomes one "_"
RECURSIVE SpacesToUnderscore(_, _)
SpacesToUnderscore(s, inrun) ==
  IF s = <<>> THEN <<>>
  ELSE IF IsSpace(s[1])
    THEN (IF inrun THEN <<>> ELSE <<"_">>) \o SpacesToUnderscore(Tail(s), TRUE)
    ELSE <<s[1]>> \o SpacesToUnderscore(Tail(s), FALSE)

sanitize_filename(name) ==
  Prefix(SpacesToUnderscore(RemoveProblematic(name), FALSE), 100)

\* get_paper_id with lines 40-44 before lines 38-39: the arXiv id first
get_paper_id_arxiv_first(paper) ==
  IF Truthy(Get(paper.arxiv_id))
    THEN sanitize_filename(
           <<"a", "r", "x", "i", "v", "_">> \o
           (IF Contains(<<"a", "r", "x", "i", "v", ".", "o", "r", "g">>,
                        paper.arxiv_id.s)
              THEN AfterLastSlash(paper.arxiv_id.s)
              ELSE paper.arxiv_id.s))
  ELSE IF Truthy(Get(paper.doi))
    THEN sanitize_filename(SlashToUnderscore(paper.doi.s))
  ELSE IF Truthy(Get(paper.post_id))
    THEN sanitize_filename(<<"l", "w", "_">> \o paper.post_id.s)
  ELSE IF Truthy(Get(paper.paperId))
    THEN sanitize_filename(<<"s", "2", "_">> \o paper.paperId.s)
  ELSE sanitize_filename(
         Prefix(IF paper.title = Absent
                  THEN <<"u", "n", "k", "n", "o", "w", "n">>
                  ELSE paper.title.s, 50))

\* get_paper_id(paper): the id as a string, for string-valued fields
get_paper_id(paper) ==
  IF Truthy(Get(paper.doi))
    THEN sanitize_filename(SlashToUnderscore(paper.doi.s))
  ELSE IF Truthy(Get(paper.arxiv_id))
    THEN sanitize_filename(
           <<"a", "r", "x", "i", "v", "_">> \o
           (IF Contains(<<"a", "r", "x", "i", "v", ".", "o", "r", "g">>,
                        paper.arxiv_id.s)
              THEN AfterLastSlash(paper.arxiv_id.s)
              ELSE paper.arxiv_id.s))
  ELSE IF Truthy(Get(paper.post_id))
    THEN sanitize_filename(<<"l", "w", "_">> \o paper.post_id.s)
  ELSE IF Truthy(Get(paper.paperId))
    THEN sanitize_filename(<<"s", "2", "_">> \o paper.paperId.s)
  ELSE sanitize_filename(
         Prefix(IF paper.title = Absent
                  THEN <<"u", "n", "k", "n", "o", "w", "n">>
                  ELSE paper.title.s, 50))

\* get_pdf_url(paper): the URL, or None
get_pdf_url(paper) ==
  IF Truthy(Get(paper.pdf_url)) THEN paper.pdf_url
  ELSE IF Truthy(Get(paper.openAccessPdf))
    THEN IF paper.openAccessPdf.t = "map"
           THEN Get(paper.openAccessPdf.url)
           ELSE paper.openAccessPdf
  ELSE None

\* ------------------------------------------------------------------------
\* Inputs of download_all
\* ------------------------------------------------------------------------

DlPaper(doi, arxiv_id, paperId, title, pdf_url, openAccessPdf) ==
  [doi |-> doi, arxiv_id |-> arxiv_id, post_id |-> Absent,
   paperId |-> paperId, title |-> title, pdf_url |-> pdf_url,
   openAccessPdf |-> openAccessPdf]

OaUrl(u) == Map(FALSE, Absent, u)

\* the records the download lists are drawn from
DlRecords ==
  { \* a DOI and a URL that ends in .pdf
    DlPaper(Str(<<"x", "/", "1">>), Absent, Absent, Str(<<"a">>),
            Str(<<"u", ".", "p", "d", "f">>), Absent),
    \* an arXiv entry URL as its id, an open-access URL that does not end
    \* in .pdf
    DlPaper(None,
            Str(<<"a", "r", "x", "i", "v", ".", "o", "r", "g", "/", "7">>),
            Str(<<"p">>), Str(<<"b">>), None, OaUrl(Str(<<"v">>))),
    \* no pdf_url and no openAccessPdf
    DlPaper(Str(<<"y">>), Absent, Absent, Str(<<"d">>), Absent, Absent),
    \* an empty pdf_url and an openAccessPdf without a URL
    DlPaper(Absent, Absent, Str(<<"q">>), Str(<<"e">>), Str(<<>>),
            OaUrl(None)) }

\* longest list given to download_all
MaxDownloads == 2

\* the values of --max-concurrent
Concurrencies == {1, 2}

DownloadLists == UNION { [1..n -> DlRecords] : n \in 0..MaxDownloads }

\* the target paths under output_dir, each named by its paper id
Paths == { get_paper_id(p) : p \in DlRecords }

\* what a GET can end with: a 2xx response by its content type, a status
\* in (403, 404, 451), another error status, or an exception (a timeout,
\* a connection error)
Responses == {"pdf", "html", "other", "permanent", "status", "exception"}

\* the kinds of response the history tells apart
Kind(r) ==
  CASE r \in {"pdf", "other"} -> "document"
    [] r \in {"status", "exception"} -> "transient"
    [] OTHER -> r

\* the last step delivered no response
NoReply == <<0, "none">>

\* ------------------------------------------------------------------------
\* State
\* ------------------------------------------------------------------------

VARIABLES
  papers,              \* deduplicate_papers: the argument of the call
  threshold,           \* deduplicate_papers: the threshold argument
  i,                   \* index of the next paper of the for loop
  seen_dois,           \* set of DOIs seen
  seen_titles,         \* list of normalized titles seen
  deduplicated,        \* the result list
  duplicates_removed,  \* the counter printed at the end
  pc,                  \* "loop", "returned" or "raised" ("idle": no call)
  call,                \* 1: the first call, 2: the call on its own output
  input,               \* history: the list as it was when the call was made
  kept,                \* history: the input indices of the retained records
  result1,             \* history: what the first call returned
  dl_papers,           \* download_all: the papers argument
  max_concurrent,      \* download_all: the max_concurrent argument
  files,               \* the files under output_dir: path -> content
  semaphore,           \* the value of the asyncio.Semaphore
  waiters,             \* the tasks blocked in semaphore.acquire(), in order
  stats,               \* the stats dict
  started,             \* how many tasks of gather have run their first step
  task_pc,             \* where each download_with_semaphore task is
  attempt,             \* download_pdf: the loop variable of each task
  paper_id,            \* the local paper_id of each task
  pdf_url,             \* the local pdf_url of each task
  success,             \* what download_pdf returned to each task
  dl_pc,               \* "running", "returned", "saved" ("idle": no run)
  gets,                \* history: the GETs issued for each record
  slept,               \* history: the backoff delays of each record
  outcome,             \* history: the terminal state of each record
  reply,               \* history: the task and the kind of the response
                       \* that the last step delivered, or NoReply
  run,                 \* 1: the first run, 2: the run that repeats it
  outcome1,            \* history: the terminal states of the first run
  id_paper,            \* get_paper_id: the argument of the call
  id_value,            \* get_paper_id: the value returned
  id_pc,               \* "called", "returned" or "raised" ("idle": no call)
  rs_how,              \* run_searches: how each subprocess ended (history)
  rs_future,           \* the future of each submitted run_search call
  rs_results,          \* main: the results list
  rs_pc,               \* "pool", "counted", "exited" ("idle": no run)
  rs_exit,             \* the exit status of main, -1 before it exits
  ld_dirs,             \* dedup main: args.input_dirs, each the files of
                       \* a directory
  ld_next,             \* index of the next directory of the loop at line 151
  ld_all,              \* main: all_papers
  ld_from,             \* history: the directory each record of all_papers
                       \* was loaded from
  ld_pc,               \* "loading", "dedup" ("idle": main is not run)
  sq_client,           \* search_query: "s2" (Semantic Scholar) or "gs"
                       \* (Google Scholar)
  sq_limit,            \* search_query: the limit argument
  sq_results,          \* len(results)
  sq_page,             \* the page requested: offset (s2), start / 10 (gs)
  sq_attempt,          \* the loop variable of the for loop
  sq_gets,             \* history: the GETs issued by the call
  sq_page_gets,        \* history: the GETs issued for the page sq_page
  sq_pc                \* "get", "returned" ("idle": no call)

dedupVars ==
  << papers, threshold, i, seen_dois, seen_titles, deduplicated,
     duplicates_removed, pc, call, input, kept, result1 >>

dlVars ==
  << dl_papers, max_concurrent, files, semaphore, waiters, stats, started,
     task_pc, attempt, paper_id, pdf_url, success, dl_pc, gets, slept,
     outcome, reply, run, outcome1 >>

idVars == << id_paper, id_value, id_pc >>

rsVars == << rs_how, rs_future, rs_results, rs_pc, rs_exit >>

ldVars == << ld_dirs, ld_next, ld_all, ld_from, ld_pc >>

sqVars ==
  << sq_client, sq_limit, sq_results, sq_page, sq_attempt, sq_gets,
     sq_page_gets, sq_pc >>

vars == << dedupVars, dlVars, idVars, rsVars, ldVars, sqVars >>

\* no call of search_query
SqIdle ==
  /\ sq_client = "none"
  /\ sq_limit = 0
  /\ sq_results = 0
  /\ sq_page = 0
  /\ sq_attempt = 0
  /\ sq_gets = 0
  /\ sq_page_gets = 0
  /\ sq_pc = "idle"

\* no run of the main of dedup_papers.py
LdIdle ==
  /\ ld_dirs = <<>>
  /\ ld_next = 1
  /\ ld_all = <<>>
  /\ ld_from = <<>>
  /\ ld_pc = "idle"

\* no run of run_searches
RsIdle ==
  /\ rs_how = <<>>
  /\ rs_future = <<>>
  /\ rs_results = <<>>
  /\ rs_pc = "idle"
  /\ rs_exit = -1

\* no call of get_paper_id on its own
IdIdle ==
  /\ id_paper = Absent
  /\ id_value = <<>>
  /\ id_pc = "idle"

\* no download_all run
DlIdle ==
  /\ dl_papers = <<>>
  /\ max_concurrent = 0
  /\ files = [p \in Paths |-> "none"]
  /\ semaphore = 0
  /\ waiters = <<>>
  /\ stats = [total |-> 0, downloaded |-> 0, skipped_no_url |-> 0,
              skipped_exists |-> 0, failed |-> 0,
              downloaded_files |-> <<>>, failed_papers |-> <<>>]
  /\ started = 0
  /\ task_pc = <<>>
  /\ attempt = <<>>
  /\ paper_id = <<>>
  /\ pdf_url = <<>>
  /\ success = <<>>
  /\ dl_pc = "idle"
  /\ gets = <<>>
  /\ slept = <<>>
  /\ outcome = <<>>
  /\ reply = NoReply
  /\ run = 0
  /\ outcome1 = <<>>

\* no deduplicate_papers call
DedupIdle ==
  /\ papers = <<>>
  /\ threshold = <<0, 1>>
  /\ input = <<>>
  /\ i = 1
  /\ seen_dois = {}
  /\ seen_titles = <<>>
  /\ deduplicated = <<>>
  /\ duplicates_removed = 0
  /\ kept = <<>>
  /\ pc = "idle"
  /\ call = 1
  /\ result1 = <<>>

\* ------------------------------------------------------------------------
\* dedup_papers.py: deduplicate_papers
\* ------------------------------------------------------------------------

\* line 83 with > for >=
is_duplicate_strict(normalized, seen, th) ==
  \E k \in 1..Len(seen) :
    ~RatGeq(th, token_sort_ratio(normalized, seen[k]))

\* line 83 with <= for >=
is_duplicate_reversed(normalized, seen, th) ==
  \E k \in 1..Len(seen) : RatGeq(th, token_sort_ratio(normalized, seen[k]))

\* lines 79-86: some seen title has similarity >= threshold
is_duplicate(normalized, seen, th) ==
  \E k \in 1..Len(seen) : RatGeq(token_sort_ratio(normalized, seen[k]), th)

InLoop == pc = "loop" /\ i <= Len(papers)

\* the title branch is entered: no raise and no continue in the DOI branch
PastDoi(paper) ==
  /\ get_doi(paper) # Raise
  /\ Truthy(get_doi(paper)) => get_doi(paper).s \notin seen_dois

\* line 71: seen_dois after the DOI branch
DoisAfter(paper) ==
  IF Truthy(get_doi(paper)) THEN seen_dois \cup {get_doi(paper).s} ELSE seen_dois

\* lines 74-77: the normalized title that is compared, or "" for none
Normalized(paper) ==
  IF Truthy(get_title(paper)) THEN normalize_title(get_title(paper)) ELSE Str(<<>>)

\* lines 68-70 without the membership test: a record with a DOI is dropped
\* once some DOI was seen
DropByDoi_any_seen ==
  /\ InLoop
  /\ get_doi(papers[i]) # Raise
  /\ Truthy(get_doi(papers[i]))
  /\ seen_dois # {}
  /\ duplicates_removed' = duplicates_removed + 1
  /\ i' = i + 1
  /\ UNCHANGED << papers, threshold, seen_dois, seen_titles, deduplicated,
                  pc, call, input, kept, result1 >>
  /\ UNCHANGED << dlVars, idVars, rsVars, ldVars, sqVars >>

\* lines 68-70: the DOI was seen, the record is dropped
DropByDoi ==
  /\ InLoop
  /\ get_doi(papers[i]) # Raise
  /\ Truthy(get_doi(papers[i]))
  /\ get_doi(papers[i]).s \in seen_dois
  /\ duplicates_removed' = duplicates_removed + 1
  /\ i' = i + 1
  /\ UNCHANGED << papers, threshold, seen_dois, seen_titles, deduplicated,
                  pc, call, input, kept, result1 >>
  /\ UNCHANGED << dlVars, idVars, rsVars, ldVars, sqVars >>

\* lines 83-89, with the matched seen title replaced by the title of the
\* dropped record
DropByTitle_replaces_seen ==
  /\ pc = "loop"
  /\ i <= Len(papers)
  /\ get_doi(papers[i]) # Raise
  /\ Truthy(get_doi(papers[i])) => get_doi(papers[i]).s \notin seen_dois
  /\ LET normalized ==
           IF Truthy(get_title(papers[i]))
             THEN normalize_title(get_title(papers[i]))
             ELSE Str(<<>>)
         first ==
           CHOOSE k \in 1..Len(seen_titles) :
             /\ RatGeq(token_sort_ratio(normalized.s, seen_titles[k]), threshold)
             /\ \A j \in 1..(k - 1) :
                  ~RatGeq(token_sort_ratio(normalized.s, seen_titles[j]),
                          threshold)
     IN /\ normalized # Raise
        /\ Truthy(normalized)
        /\ \E k \in 1..Len(seen_titles) :
             RatGeq(token_sort_ratio(normalized.s, seen_titles[k]), threshold)
        /\ seen_titles' = [seen_titles EXCEPT ![first] = normalized.s]
  /\ seen_dois' = IF Truthy(get_doi(papers[i]))
                    THEN seen_dois \cup {get_doi(papers[i]).s}
                    ELSE seen_dois
  /\ duplicates_removed' = duplicates_removed + 1
  /\ i' = i + 1
  /\ UNCHANGED << papers, threshold, deduplicated, pc, call, input, kept,
                  result1 >>
  /\ UNCHANGED << dlVars, idVars, rsVars, ldVars, sqVars >>

\* lines 83-89, with the title of the dropped record appended to
\* seen_titles
DropByTitle_appends ==
  /\ InLoop
  /\ PastDoi(papers[i])
  /\ Normalized(papers[i]) # Raise
  /\ Truthy(Normalized(papers[i]))
  /\ is_duplicate(Normalized(papers[i]).s, seen_titles, threshold)
  /\ seen_dois' = DoisAfter(papers[i])
  /\ seen_titles' = Append(seen_titles, Normalized(papers[i]).s)
  /\ duplicates_removed' = duplicates_removed + 1
  /\ i' = i + 1
  /\ UNCHANGED << papers, threshold, deduplicated,
                  pc, call, input, kept, result1 >>
  /\ UNCHANGED << dlVars, idVars, rsVars, ldVars, sqVars >>

\* lines 83-89: the title matches a seen title, the record is dropped
DropByTitle ==
  /\ InLoop
  /\ PastDoi(papers[i])
  /\ Normalized(papers[i]) # Raise
  /\ Truthy(Normalized(papers[i]))
  /\ is_duplicate(Normalized(papers[i]).s, seen_titles, threshold)
  /\ seen_dois' = DoisAfter(papers[i])
  /\ duplicates_removed' = duplicates_removed + 1
  /\ i' = i + 1
  /\ UNCHANGED << papers, threshold, seen_titles, deduplicated,
                  pc, call, input, kept, result1 >>
  /\ UNCHANGED << dlVars, idVars, rsVars, ldVars, sqVars >>

\* lines 91-93, with insert(0, paper) for append(paper)
Retain_prepends ==
  /\ pc = "loop"
  /\ i <= Len(papers)
  /\ get_doi(papers[i]) # Raise
  /\ Truthy(get_doi(papers[i])) => get_doi(papers[i]).s \notin seen_dois
  /\ LET normalized ==
           IF Truthy(get_title(papers[i]))
             THEN normalize_title(get_title(papers[i]))
             ELSE Str(<<>>)
     IN /\ normalized # Raise
        /\ ~(/\ Truthy(normalized)
             /\ is_duplicate(normalized.s, seen_titles, threshold))
        /\ seen_titles' = IF Truthy(normalized)
                            THEN Append(seen_titles, normalized.s)
                            ELSE seen_titles
  /\ seen_dois' = IF Truthy(get_doi(papers[i]))
                    THEN seen_dois \cup {get_doi(papers[i]).s}
                    ELSE seen_dois
  /\ deduplicated' = <<papers[i]>> \o deduplicated
  /\ kept' = Append(kept, i)
  /\ i' = i + 1
  /\ UNCHANGED << papers, threshold, duplicates_removed, pc, call, input,
                  result1 >>
  /\ UNCHANGED << dlVars, idVars, rsVars, ldVars, sqVars >>

\* lines 91-93: the record is retained
Retain ==
  /\ InLoop
  /\ PastDoi(papers[i])
  /\ Normalized(papers[i]) # Raise
  /\ ~(/\ Truthy(Normalized(papers[i]))
       /\ is_duplicate(Normalized(papers[i]).s, seen_titles, threshold))
  /\ seen_dois' = DoisAfter(papers[i])
  /\ seen_titles' = IF Truthy(Normalized(papers[i]))
                      THEN Append(seen_titles, Normalized(papers[i]).s)
                      ELSE seen_titles
  /\ deduplicated' = Append(deduplicated, papers[i])
  /\ kept' = Append(kept, i)
  /\ i' = i + 1
  /\ UNCHANGED << papers, threshold, duplicates_removed, pc, call, input,
                  result1 >>
  /\ UNCHANGED << dlVars, idVars, rsVars, ldVars, sqVars >>

\* lines 40, 41, 42, 30: .lower() or .get() of a value that has none;
\* the exception leaves deduplicate_papers
RaiseError ==
  /\ InLoop
  /\ \/ get_doi(papers[i]) = Raise
     \/ PastDoi(papers[i]) /\ Normalized(papers[i]) = Raise
  /\ seen_dois' = IF get_doi(papers[i]) = Raise THEN seen_dois
                  ELSE DoisAfter(papers[i])
  /\ pc' = "raised"
  /\ UNCHANGED << papers, threshold, i, seen_titles, deduplicated,
                  duplicates_removed, call, input, kept, result1 >>
  /\ UNCHANGED << dlVars, idVars, rsVars, ldVars, sqVars >>

\* lines 95-96: the loop is over
Return ==
  /\ pc = "loop"
  /\ i > Len(papers)
  /\ pc' = "returned"
  /\ result1' = IF call = 1 THEN deduplicated ELSE result1
  /\ UNCHANGED << papers, threshold, i, seen_dois, seen_titles, deduplicated,
                  duplicates_removed, call, input, kept >>
  /\ UNCHANGED << dlVars, idVars, rsVars, ldVars, sqVars >>

\* lines 59-62 of a second call, on the list the first call returned
Rerun ==
  /\ pc = "returned"
  /\ call = 1
  /\ call' = 2
  /\ papers' = deduplicated
  /\ input' = deduplicated
  /\ i' = 1
  /\ seen_dois' = {}
  /\ seen_titles' = <<>>
  /\ deduplicated' = <<>>
  /\ duplicates_removed' = 0
  /\ kept' = <<>>
  /\ pc' = "loop"
  /\ UNCHANGED << threshold, result1 >>
  /\ UNCHANGED << dlVars, idVars, rsVars, ldVars, sqVars >>

\* lines 51, 59-62: the first call
Init ==
  /\ \/ papers \in InputLists /\ threshold \in Thresholds
     \/ papers = ExamplePapers /\ threshold = ExampleThreshold
  /\ input = papers
  /\ i = 1
  /\ seen_dois = {}
  /\ seen_titles = <<>>
  /\ deduplicated = <<>>
  /\ duplicates_removed = 0
  /\ kept = <<>>
  /\ pc = "loop"
  /\ call = 1
  /\ result1 = <<>>
  /\ DlIdle
  /\ IdIdle
  /\ RsIdle
  /\ LdIdle
  /\ SqIdle

Next ==
  \/ DropByDoi
  \/ DropByTitle
  \/ Retain
  \/ RaiseError
  \/ Return
  \/ Rerun

Spec == Init /\ [][Next]_vars

\* ------------------------------------------------------------------------
\* download_pdfs.py: download_all
\*
\* Each download_with_semaphore task is an asyncio task: it runs without
\* interruption from one suspension point (a GET, a file write, a backoff
\* sleep, a blocked acquire, the close of the client) to the next.  gather
\* schedules the tasks in list order, so every task runs its first step,
\* existence check included, before any GET of the run is answered.
\* ------------------------------------------------------------------------

Tasks == 1..Len(dl_papers)

\* line 137: output_path, the file of the task's paper_id
PathOf(k) == paper_id[k]

\* lines 130-131: the locals of the task are set
SetLocals(k) ==
  /\ paper_id' = [paper_id EXCEPT ![k] = get_paper_id(dl_papers[k])]
  /\ pdf_url' = [pdf_url EXCEPT ![k] = get_pdf_url(dl_papers[k])]

\* 2 * attempt for 2**attempt
Pow2_double(n) == 2 * n

Pow2(n) == CASE n = 0 -> 1 [] n = 1 -> 2 [] n = 2 -> 4 [] n = 3 -> 8 [] OTHER -> 16

Add(field) == [stats EXCEPT ![field] = @ + 1]

\* lines 99-100, 102-105: after a failed attempt, sleep 2**attempt and go
\* round the loop, or fall out of it after the last attempt (return False)
AfterError(k) ==
  IF attempt[k] < MAX_RETRIES - 1
    THEN /\ task_pc' = [task_pc EXCEPT ![k] = "sleep"]
         /\ slept' = [slept EXCEPT ![k] = Append(@, Pow2(attempt[k]))]
         /\ success' = success
    ELSE /\ task_pc' = [task_pc EXCEPT ![k] = "closing"]
         /\ slept' = slept
         /\ success' = [success EXCEPT ![k] = FALSE]

Starting == dl_pc = "running" /\ started < Len(dl_papers)

\* lines 130-135, with the record counted as failed as well
StartNoUrl_counts_failed ==
  /\ dl_pc = "running"
  /\ started < Len(dl_papers)
  /\ ~Truthy(get_pdf_url(dl_papers[started + 1]))
  /\ paper_id' = [paper_id EXCEPT ![started + 1] =
                    get_paper_id(dl_papers[started + 1])]
  /\ pdf_url' = [pdf_url EXCEPT ![started + 1] = None]
  /\ stats' = [stats EXCEPT !.skipped_no_url = @ + 1, !.failed = @ + 1]
  /\ task_pc' = [task_pc EXCEPT ![started + 1] = "done"]
  /\ outcome' = [outcome EXCEPT ![started + 1] = "SkippedNoUrl"]
  /\ started' = started + 1
  /\ UNCHANGED << dl_papers, max_concurrent, files, semaphore, waiters,
                  attempt, success, dl_pc, gets, slept >>
  /\ UNCHANGED << run, outcome1 >>
  /\ UNCHANGED << dedupVars, idVars, rsVars, ldVars, sqVars >>

\* lines 130-135: no URL
StartNoUrl ==
  /\ Starting
  /\ LET k == started + 1 IN
     /\ SetLocals(k)
     /\ ~Truthy(get_pdf_url(dl_papers[k]))
     /\ stats' = Add("skipped_no_url")
     /\ task_pc' = [task_pc EXCEPT ![k] = "done"]
     /\ outcome' = [outcome EXCEPT ![k] = "SkippedNoUrl"]
  /\ started' = started + 1
  /\ UNCHANGED << dl_papers, max_concurrent, files, semaphore, waiters,
                  attempt, success, dl_pc, gets, slept >>
  /\ UNCHANGED << run, outcome1 >>
  /\ UNCHANGED << dedupVars, idVars, rsVars, ldVars, sqVars >>

\* lines 137-142, without the return: the file is fetched again
StartExists_fetches_again ==
  /\ dl_pc = "running"
  /\ started < Len(dl_papers)
  /\ Truthy(get_pdf_url(dl_papers[started + 1]))
  /\ files[get_paper_id(dl_papers[started + 1])] # "none"
  /\ semaphore > 0
  /\ paper_id' = [paper_id EXCEPT ![started + 1] =
                    get_paper_id(dl_papers[started + 1])]
  /\ pdf_url' = [pdf_url EXCEPT ![started + 1] =
                   get_pdf_url(dl_papers[started + 1])]
  /\ stats' = [stats EXCEPT
                 !.skipped_exists = @ + 1,
                 !.downloaded_files =
                   Append(@, get_paper_id(dl_papers[started + 1]))]
  /\ semaphore' = semaphore - 1
  /\ task_pc' = [task_pc EXCEPT ![started + 1] = "get"]
  /\ gets' = [gets EXCEPT ![started + 1] = @ + 1]
  /\ started' = started + 1
  /\ UNCHANGED << dl_papers, max_concurrent, files, waiters, attempt,
                  success, dl_pc, slept, outcome >>
  /\ UNCHANGED << run, outcome1 >>
  /\ UNCHANGED << dedupVars, idVars, rsVars, ldVars, sqVars >>

\* lines 137-142: the target path exists
StartExists ==
  /\ Starting
  /\ LET k == started + 1 IN
     /\ SetLocals(k)
     /\ Truthy(get_pdf_url(dl_papers[k]))
     /\ files[get_paper_id(dl_papers[k])] # "none"
     /\ stats' = [Add("skipped_exists") EXCEPT
                    !.downloaded_files = Append(@, get_paper_id(dl_papers[k]))]
     /\ task_pc' = [task_pc EXCEPT ![k] = "done"]
     /\ outcome' = [outcome EXCEPT ![k] = "SkippedExisting"]
  /\ started' = started + 1
  /\ UNCHANGED << dl_papers, max_concurrent, files, semaphore, waiters,
                  attempt, success, dl_pc, gets, slept >>
  /\ UNCHANGED << run, outcome1 >>
  /\ UNCHANGED << dedupVars, idVars, rsVars, ldVars, sqVars >>

\* lines 144-146, 74-80: a permit is free; the first GET is issued
StartFetch ==
  /\ Starting
  /\ LET k == started + 1 IN
     /\ SetLocals(k)
     /\ Truthy(get_pdf_url(dl_papers[k]))
     /\ files[get_paper_id(dl_papers[k])] = "none"
     /\ semaphore > 0
     /\ semaphore' = semaphore - 1
     /\ task_pc' = [task_pc EXCEPT ![k] = "get"]
     /\ gets' = [gets EXCEPT ![k] = @ + 1]
  /\ started' = started + 1
  /\ UNCHANGED << dl_papers, max_concurrent, files, waiters, stats,
                  attempt, success, dl_pc, slept, outcome >>
  /\ UNCHANGED << run, outcome1 >>
  /\ UNCHANGED << dedupVars, idVars, rsVars, ldVars, sqVars >>

\* line 144 without the gate: no permit is free and the GET is issued
StartWait_barges ==
  /\ dl_pc = "running"
  /\ started < Len(dl_papers)
  /\ Truthy(get_pdf_url(dl_papers[started + 1]))
  /\ files[get_paper_id(dl_papers[started + 1])] = "none"
  /\ semaphore = 0
  /\ paper_id' = [paper_id EXCEPT ![started + 1] =
                    get_paper_id(dl_papers[started + 1])]
  /\ pdf_url' = [pdf_url EXCEPT ![started + 1] =
                   get_pdf_url(dl_papers[started + 1])]
  /\ task_pc' = [task_pc EXCEPT ![started + 1] = "get"]
  /\ gets' = [gets EXCEPT ![started + 1] = @ + 1]
  /\ started' = started + 1
  /\ UNCHANGED << dl_papers, max_concurrent, files, semaphore, waiters,
                  stats, attempt, success, dl_pc, slept, outcome >>
  /\ UNCHANGED << run, outcome1 >>
  /\ UNCHANGED << dedupVars, idVars, rsVars, ldVars, sqVars >>

\* line 144: no permit is free; the task blocks in acquire()
StartWait ==
  /\ Starting
  /\ LET k == started + 1 IN
     /\ SetLocals(k)
     /\ Truthy(get_pdf_url(dl_papers[k]))
     /\ files[get_paper_id(dl_papers[k])] = "none"
     /\ semaphore = 0
     /\ task_pc' = [task_pc EXCEPT ![k] = "wait"]
     /\ waiters' = Append(waiters, k)
  /\ started' = started + 1
  /\ UNCHANGED << dl_papers, max_concurrent, files, semaphore, stats,
                  attempt, success, dl_pc, gets, slept, outcome >>
  /\ UNCHANGED << run, outcome1 >>
  /\ UNCHANGED << dedupVars, idVars, rsVars, ldVars, sqVars >>

\* line 144: a woken waiter leaves acquire() with its permit; lines 145-146,
\* 74-80: its first GET is issued
Admit(k) ==
  /\ task_pc[k] = "granted"
  /\ task_pc' = [task_pc EXCEPT ![k] = "get"]
  /\ gets' = [gets EXCEPT ![k] = @ + 1]
  /\ UNCHANGED << dl_papers, max_concurrent, paper_id, pdf_url, files,
                  semaphore, waiters, stats,
                  started, attempt, success, dl_pc, slept, outcome >>
  /\ UNCHANGED << run, outcome1 >>
  /\ UNCHANGED << dedupVars, idVars, rsVars, ldVars, sqVars >>

InFlight(k) == dl_pc = "running" /\ started = Len(dl_papers) /\ task_pc[k] = "get"

\* lines 81-90: a 2xx response that is taken for the document
RespondsDocument(k, r) ==
  /\ InFlight(k)
  /\ \/ r \in {"pdf", "other"}
     \/ r = "html" /\ EndsWith(pdf_url[k].s, <<".", "p", "d", "f">>)
  /\ task_pc' = [task_pc EXCEPT ![k] = "write"]
  /\ UNCHANGED << dl_papers, max_concurrent, paper_id, pdf_url, files,
                  semaphore, waiters, stats,
                  started, attempt, success, dl_pc, gets, slept, outcome >>
  /\ UNCHANGED << run, outcome1 >>
  /\ UNCHANGED << dedupVars, idVars, rsVars, ldVars, sqVars >>

\* lines 83-90 without the check of line 87: the page is written
RespondsHtml_writes(k, r) ==
  /\ InFlight(k)
  /\ r = "html"
  /\ ~EndsWith(pdf_url[k].s, <<".", "p", "d", "f">>)
  /\ task_pc' = [task_pc EXCEPT ![k] = "write"]
  /\ UNCHANGED << dl_papers, max_concurrent, paper_id, pdf_url, files,
                  semaphore, waiters, stats,
                  started, attempt, success, dl_pc, gets, slept, outcome >>
  /\ UNCHANGED << run, outcome1 >>
  /\ UNCHANGED << dedupVars, idVars, rsVars, ldVars, sqVars >>

\* lines 85-88: an HTML response for a URL that does not end in .pdf
RespondsHtml(k, r) ==
  /\ InFlight(k)
  /\ r = "html"
  /\ ~EndsWith(pdf_url[k].s, <<".", "p", "d", "f">>)
  /\ task_pc' = [task_pc EXCEPT ![k] = "closing"]
  /\ success' = [success EXCEPT ![k] = FALSE]
  /\ UNCHANGED << dl_papers, max_concurrent, paper_id, pdf_url, files,
                  semaphore, waiters, stats,
                  started, attempt, dl_pc, gets, slept, outcome >>
  /\ UNCHANGED << run, outcome1 >>
  /\ UNCHANGED << dedupVars, idVars, rsVars, ldVars, sqVars >>

\* lines 95-100 without the check of line 96: the status is retried like
\* any other
RespondsPermanent_retries(k, r) ==
  /\ InFlight(k)
  /\ r = "permanent"
  /\ AfterError(k)
  /\ UNCHANGED << dl_papers, max_concurrent, paper_id, pdf_url, files,
                  semaphore, waiters, stats,
                  started, attempt, dl_pc, gets, outcome >>
  /\ UNCHANGED << run, outcome1 >>
  /\ UNCHANGED << dedupVars, idVars, rsVars, ldVars, sqVars >>

\* lines 95-98: status 403, 404 or 451
RespondsPermanent(k, r) ==
  /\ InFlight(k)
  /\ r = "permanent"
  /\ task_pc' = [task_pc EXCEPT ![k] = "closing"]
  /\ success' = [success EXCEPT ![k] = FALSE]
  /\ UNCHANGED << dl_papers, max_concurrent, paper_id, pdf_url, files,
                  semaphore, waiters, stats,
                  started, attempt, dl_pc, gets, slept, outcome >>
  /\ UNCHANGED << run, outcome1 >>
  /\ UNCHANGED << dedupVars, idVars, rsVars, ldVars, sqVars >>

\* lines 95-105: another error status, a timeout, a connection error
RespondsTransient(k, r) ==
  /\ InFlight(k)
  /\ r \in {"status", "exception"}
  /\ AfterError(k)
  /\ UNCHANGED << dl_papers, max_concurrent, paper_id, pdf_url, files,
                  semaphore, waiters, stats,
                  started, attempt, dl_pc, gets, outcome >>
  /\ UNCHANGED << run, outcome1 >>
  /\ UNCHANGED << dedupVars, idVars, rsVars, ldVars, sqVars >>

\* lines 90-93, with the content written to another path than the one
\* line 139 looks at
WriteOk_other_path(k) ==
  /\ dl_pc = "running"
  /\ task_pc[k] = "write"
  /\ files' = files
  /\ task_pc' = [task_pc EXCEPT ![k] = "closing"]
  /\ success' = [success EXCEPT ![k] = TRUE]
  /\ UNCHANGED << dl_papers, max_concurrent, paper_id, pdf_url,
                  semaphore, waiters, stats,
                  started, attempt, dl_pc, gets, slept, outcome >>
  /\ UNCHANGED << run, outcome1 >>
  /\ UNCHANGED << dedupVars, idVars, rsVars, ldVars, sqVars >>

\* lines 90-93: the file is opened for writing and the content written
WriteOk(k) ==
  /\ dl_pc = "running"
  /\ task_pc[k] = "write"
  /\ files' = [files EXCEPT ![PathOf(k)] = "full"]
  /\ task_pc' = [task_pc EXCEPT ![k] = "closing"]
  /\ success' = [success EXCEPT ![k] = TRUE]
  /\ UNCHANGED << dl_papers, max_concurrent, paper_id, pdf_url,
                  semaphore, waiters, stats,
                  started, attempt, dl_pc, gets, slept, outcome >>
  /\ UNCHANGED << run, outcome1 >>
  /\ UNCHANGED << dedupVars, idVars, rsVars, ldVars, sqVars >>

\* lines 90-91, 101-105: open() raises and the file is as it was, or
\* write() raises after open() has created or truncated the file
WriteFails(k, opened) ==
  /\ dl_pc = "running"
  /\ task_pc[k] = "write"
  /\ files' = IF opened THEN [files EXCEPT ![PathOf(k)] = "partial"] ELSE files
  /\ AfterError(k)
  /\ UNCHANGED << dl_papers, max_concurrent, paper_id, pdf_url,
                  semaphore, waiters, stats,
                  started, attempt, dl_pc, gets, outcome >>
  /\ UNCHANGED << run, outcome1 >>
  /\ UNCHANGED << dedupVars, idVars, rsVars, ldVars, sqVars >>

\* lines 100, 103 without the loop variable advancing: the attempt is
\* repeated
Wake_same_attempt(k) ==
  /\ dl_pc = "running"
  /\ task_pc[k] = "sleep"
  /\ task_pc' = [task_pc EXCEPT ![k] = "get"]
  /\ gets' = [gets EXCEPT ![k] = @ + 1]
  /\ UNCHANGED << dl_papers, max_concurrent, paper_id, pdf_url, files,
                  semaphore, waiters, stats, attempt,
                  started, success, dl_pc, slept, outcome >>
  /\ UNCHANGED << run, outcome1 >>
  /\ UNCHANGED << dedupVars, idVars, rsVars, ldVars, sqVars >>

\* lines 100, 103, 74-80: the backoff sleep is over; the next GET is issued
Wake(k) ==
  /\ dl_pc = "running"
  /\ task_pc[k] = "sleep"
  /\ attempt' = [attempt EXCEPT ![k] = @ + 1]
  /\ task_pc' = [task_pc EXCEPT ![k] = "get"]
  /\ gets' = [gets EXCEPT ![k] = @ + 1]
  /\ UNCHANGED << dl_papers, max_concurrent, paper_id, pdf_url, files,
                  semaphore, waiters, stats,
                  started, success, dl_pc, slept, outcome >>
  /\ UNCHANGED << run, outcome1 >>
  /\ UNCHANGED << dedupVars, idVars, rsVars, ldVars, sqVars >>

\* line 144, on leaving the block: release() wakes the first waiter, which
\* takes the permit, or puts the permit back
Release(k) ==
  IF waiters # <<>>
    THEN /\ task_pc' = [task_pc EXCEPT ![k] = "done", ![Head(waiters)] = "granted"]
         /\ waiters' = Tail(waiters)
         /\ semaphore' = semaphore
    ELSE /\ task_pc' = [task_pc EXCEPT ![k] = "done"]
         /\ waiters' = waiters
         /\ semaphore' = semaphore + 1

\* lines 148-151 without line 149: the file is listed but not counted
FinishDownloaded_not_counted(k) ==
  /\ dl_pc = "running"
  /\ task_pc[k] = "closing"
  /\ success[k]
  /\ stats' = [stats EXCEPT !.downloaded_files = Append(@, PathOf(k))]
  /\ outcome' = [outcome EXCEPT ![k] = "Downloaded"]
  /\ Release(k)
  /\ UNCHANGED << dl_papers, max_concurrent, paper_id, pdf_url, files,
                  started, attempt,
                  success, dl_pc, gets, slept >>
  /\ UNCHANGED << run, outcome1 >>
  /\ UNCHANGED << dedupVars, idVars, rsVars, ldVars, sqVars >>

\* lines 148-151: the client is closed, download_pdf returned True
FinishDownloaded(k) ==
  /\ dl_pc = "running"
  /\ task_pc[k] = "closing"
  /\ success[k]
  /\ stats' = [Add("downloaded") EXCEPT
                 !.downloaded_files = Append(@, PathOf(k))]
  /\ outcome' = [outcome EXCEPT ![k] = "Downloaded"]
  /\ Release(k)
  /\ UNCHANGED << dl_papers, max_concurrent, paper_id, pdf_url, files,
                  started, attempt,
                  success, dl_pc, gets, slept >>
  /\ UNCHANGED << run, outcome1 >>
  /\ UNCHANGED << dedupVars, idVars, rsVars, ldVars, sqVars >>

\* lines 152-156 outside the `async with`: the permit is not given back
FinishFailed_keeps_permit(k) ==
  /\ dl_pc = "running"
  /\ task_pc[k] = "closing"
  /\ ~success[k]
  /\ stats' = [Add("failed") EXCEPT
                 !.failed_papers =
                   Append(@, [id |-> PathOf(k),
                              title |-> Get(dl_papers[k].title),
                              url |-> pdf_url[k]])]
  /\ outcome' = [outcome EXCEPT ![k] = "Failed"]
  /\ task_pc' = [task_pc EXCEPT ![k] = "done"]
  /\ UNCHANGED << dl_papers, max_concurrent, paper_id, pdf_url, files,
                  semaphore, waiters, started, attempt,
                  success, dl_pc, gets, slept >>
  /\ UNCHANGED << run, outcome1 >>
  /\ UNCHANGED << dedupVars, idVars, rsVars, ldVars, sqVars >>

\* lines 152-156 raising instead: gather re-raises, asyncio.run and main
\* end with the exception and line 206 is never reached
FinishFailed_raises(k) ==
  /\ dl_pc = "running"
  /\ task_pc[k] = "closing"
  /\ ~success[k]
  /\ dl_pc' = "crashed"
  /\ UNCHANGED << dl_papers, max_concurrent, paper_id, pdf_url, files,
                  semaphore, waiters, stats, task_pc, outcome,
                  started, attempt,
                  success, gets, slept >>
  /\ UNCHANGED << run, outcome1 >>
  /\ UNCHANGED << dedupVars, idVars, rsVars, ldVars, sqVars >>

\* lines 152-156: the client is closed, download_pdf returned False
FinishFailed(k) ==
  /\ dl_pc = "running"
  /\ task_pc[k] = "closing"
  /\ ~success[k]
  /\ stats' = [Add("failed") EXCEPT
                 !.failed_papers =
                   Append(@, [id |-> PathOf(k),
                              title |-> Get(dl_papers[k].title),
                              url |-> pdf_url[k]])]
  /\ outcome' = [outcome EXCEPT ![k] = "Failed"]
  /\ Release(k)
  /\ UNCHANGED << dl_papers, max_concurrent, paper_id, pdf_url, files,
                  started, attempt,
                  success, dl_pc, gets, slept >>
  /\ UNCHANGED << run, outcome1 >>
  /\ UNCHANGED << dedupVars, idVars, rsVars, ldVars, sqVars >>

\* lines 162-164: every task is done; download_all returns stats
GatherReturns ==
  /\ dl_pc = "running"
  /\ started = Len(dl_papers)
  /\ \A k \in Tasks : task_pc[k] = "done"
  /\ dl_pc' = "returned"
  /\ UNCHANGED << dl_papers, max_concurrent, paper_id, pdf_url, files,
                  semaphore, waiters, stats,
                  started, task_pc, attempt, success, gets, slept, outcome >>
  /\ UNCHANGED << run, outcome1 >>
  /\ UNCHANGED << dedupVars, idVars, rsVars, ldVars, sqVars >>

\* lines 206-210: main writes download_stats.json
SaveStats ==
  /\ dl_pc = "returned"
  /\ dl_pc' = "saved"
  /\ UNCHANGED << dl_papers, max_concurrent, paper_id, pdf_url, files,
                  semaphore, waiters, stats,
                  started, task_pc, attempt, success, gets, slept, outcome >>
  /\ UNCHANGED << run, outcome1 >>
  /\ UNCHANGED << dedupVars, idVars, rsVars, ldVars, sqVars >>

\* lines 195, 116-127, 159: the script is run again on the same input file
\* and output directory; the files are as the first run left them
RunAgain ==
  /\ dl_pc = "saved"
  /\ run = 1
  /\ run' = 2
  /\ outcome1' = outcome
  /\ semaphore' = max_concurrent
  /\ waiters' = <<>>
  /\ stats' = [total |-> Len(dl_papers), downloaded |-> 0, skipped_no_url |-> 0,
               skipped_exists |-> 0, failed |-> 0,
               downloaded_files |-> <<>>, failed_papers |-> <<>>]
  /\ started' = 0
  /\ task_pc' = [k \in Tasks |-> "created"]
  /\ attempt' = [k \in Tasks |-> 0]
  /\ paper_id' = [k \in Tasks |-> <<>>]
  /\ pdf_url' = [k \in Tasks |-> None]
  /\ success' = [k \in Tasks |-> FALSE]
  /\ dl_pc' = "running"
  /\ gets' = [k \in Tasks |-> 0]
  /\ slept' = [k \in Tasks |-> <<>>]
  /\ outcome' = [k \in Tasks |-> "none"]
  /\ reply' = NoReply
  /\ UNCHANGED << dl_papers, max_concurrent, files >>
  /\ UNCHANGED << dedupVars, idVars, rsVars, ldVars, sqVars >>

\* lines 116-127, 159: the state when gather is called; a file may be at a
\* target path from an earlier run
InitRun(lists, concurrencies) ==
  /\ dl_papers \in lists
  /\ max_concurrent \in concurrencies
  /\ files \in [Paths -> {"none", "old"}]
  /\ \A p \in Paths :
       files[p] = "old" => \E k \in Tasks : get_paper_id(dl_papers[k]) = p
  /\ semaphore = max_concurrent
  /\ waiters = <<>>
  /\ stats = [total |-> Len(dl_papers), downloaded |-> 0, skipped_no_url |-> 0,
              skipped_exists |-> 0, failed |-> 0,
              downloaded_files |-> <<>>, failed_papers |-> <<>>]
  /\ started = 0
  /\ task_pc = [k \in Tasks |-> "created"]
  /\ attempt = [k \in Tasks |-> 0]
  /\ paper_id = [k \in Tasks |-> <<>>]
  /\ pdf_url = [k \in Tasks |-> None]
  /\ success = [k \in Tasks |-> FALSE]
  /\ dl_pc = "running"
  /\ gets = [k \in Tasks |-> 0]
  /\ slept = [k \in Tasks |-> <<>>]
  /\ outcome = [k \in Tasks |-> "none"]
  /\ reply = NoReply
  /\ run = 1
  /\ outcome1 = <<>>
  /\ DedupIdle
  /\ IdIdle
  /\ RsIdle
  /\ LdIdle
  /\ SqIdle

\* download_all is given a list of DownloadLists
InitDownload == InitRun(DownloadLists, Concurrencies)

\* the steps of a run; the history keeps no response
NextDownload ==
  \/ StartNoUrl /\ reply' = NoReply
  \/ StartExists /\ reply' = NoReply
  \/ StartFetch /\ reply' = NoReply
  \/ StartWait /\ reply' = NoReply
  \/ \E k \in Tasks : Admit(k) /\ reply' = NoReply
  \/ \E k \in Tasks : \E r \in Responses :
       RespondsDocument(k, r) /\ reply' = NoReply
  \/ \E k \in Tasks : \E r \in Responses :
       RespondsHtml(k, r) /\ reply' = NoReply
  \/ \E k \in Tasks : \E r \in Responses :
       RespondsPermanent(k, r) /\ reply' = NoReply
  \/ \E k \in Tasks : \E r \in Responses :
       RespondsTransient(k, r) /\ reply' = NoReply
  \/ \E k \in Tasks : WriteOk(k) /\ reply' = NoReply
  \/ \E k \in Tasks : \E opened \in BOOLEAN :
       WriteFails(k, opened) /\ reply' = NoReply
  \/ \E k \in Tasks : Wake(k) /\ reply' = NoReply
  \/ \E k \in Tasks : FinishDownloaded(k) /\ reply' = NoReply
  \/ \E k \in Tasks : FinishFailed(k) /\ reply' = NoReply
  \/ GatherReturns /\ reply' = NoReply
  \/ SaveStats /\ reply' = NoReply

SpecDownload == InitDownload /\ [][NextDownload]_vars

\* download_all under the event loop, on lists of a record whose URL does
\* not end in .pdf and a record without URL: a task that can run is run,
\* every GET ends (line 79: timeout) and every sleep ends
FairRecords ==
  { DlPaper(None,
            Str(<<"a", "r", "x", "i", "v", ".", "o", "r", "g", "/", "7">>),
            Str(<<"p">>), Str(<<"b">>), None, OaUrl(Str(<<"v">>))),
    DlPaper(Str(<<"y">>), Absent, Absent, Str(<<"d">>), Absent, Absent) }

FairLists == UNION { [1..n -> FairRecords] : n \in 0..MaxDownloads }

InitFair == InitRun(FairLists, Concurrencies)

FairDownload ==
  InitFair /\ [][NextDownload]_vars /\ WF_vars(NextDownload)

\* ------------------------------------------------------------------------
\* Two runs of the script on the same input file and output directory
\* ------------------------------------------------------------------------

\* the values of --max-concurrent of the runs that are repeated
RerunConcurrencies == {1}

InitRerun == InitRun(DownloadLists, RerunConcurrencies)

NextRerun == NextDownload \/ RunAgain

SpecRerun == InitRerun /\ [][NextRerun]_vars

\* ------------------------------------------------------------------------
\* The runs in which the history keeps the response of the last step
\* ------------------------------------------------------------------------

\* the values of --max-concurrent of these runs
FetchConcurrencies == {1}

InitFetch == InitRun(DownloadLists, FetchConcurrencies)

\* the steps of a run; the history keeps the response a step delivers
NextFetch ==
  \/ StartNoUrl /\ reply' = NoReply
  \/ StartExists /\ reply' = NoReply
  \/ StartFetch /\ reply' = NoReply
  \/ StartWait /\ reply' = NoReply
  \/ \E k \in Tasks : Admit(k) /\ reply' = NoReply
  \/ \E k \in Tasks : \E r \in Responses :
       RespondsDocument(k, r) /\ reply' = <<k, Kind(r)>>
  \/ \E k \in Tasks : \E r \in Responses :
       RespondsHtml(k, r) /\ reply' = <<k, Kind(r)>>
  \/ \E k \in Tasks : \E r \in Responses :
       RespondsPermanent(k, r) /\ reply' = <<k, Kind(r)>>
  \/ \E k \in Tasks : \E r \in Responses :
       RespondsTransient(k, r) /\ reply' = <<k, Kind(r)>>
  \/ \E k \in Tasks : WriteOk(k) /\ reply' = NoReply
  \/ \E k \in Tasks : \E opened \in BOOLEAN :
       WriteFails(k, opened) /\ reply' = NoReply
  \/ \E k \in Tasks : Wake(k) /\ reply' = NoReply
  \/ \E k \in Tasks : FinishDownloaded(k) /\ reply' = NoReply
  \/ \E k \in Tasks : FinishFailed(k) /\ reply' = NoReply
  \/ GatherReturns /\ reply' = NoReply
  \/ SaveStats /\ reply' = NoReply

SpecFetch == InitFetch /\ [][NextFetch]_vars

\* ------------------------------------------------------------------------
\* get_paper_id on its own
\* ------------------------------------------------------------------------

\* length of the title that line 51 cuts
LongTitleLen == 52

\* a title of LongTitleLen characters, every fourth one a space
LongTitle == [n \in 1..LongTitleLen |-> IF n % 4 = 0 THEN " " ELSE "t"]

\* the records given to get_paper_id: every field absent, null, empty or a
\* string
IdRecords ==
  { [doi |-> d, arxiv_id |-> a, post_id |-> o, paperId |-> s, title |-> t,
     pdf_url |-> Absent, openAccessPdf |-> Absent] :
      d \in {Absent, None, Str(<<>>), Str(<<"x", "/", "1">>)},
      a \in {Absent,
             Str(<<"a", "r", "x", "i", "v", ".", "o", "r", "g", "/", "7">>),
             Str(<<"2", "1", ".", "5">>)},
      o \in {Absent, Str(<<"k">>)},
      s \in {Absent, Str(<<"p", "?">>)},
      t \in {Absent, None, Str(<<"a", ":", " ", " ", "b">>), Str(LongTitle)} }

\* lines 38-47: no identifier field is truthy
NoIdentifier(paper) ==
  /\ ~Truthy(Get(paper.doi))
  /\ ~Truthy(Get(paper.arxiv_id))
  /\ ~Truthy(Get(paper.post_id))
  /\ ~Truthy(Get(paper.paperId))

\* lines 38-51: get_paper_id returns
ReturnsPaperId ==
  /\ id_pc = "called"
  /\ ~(NoIdentifier(id_paper) /\ id_paper.title = None)
  /\ id_value' = get_paper_id(id_paper)
  /\ id_pc' = "returned"
  /\ UNCHANGED id_paper
  /\ UNCHANGED << dedupVars, dlVars, rsVars, ldVars, sqVars >>

\* lines 50-51: the title is null, paper.get("title", "unknown") is None
\* and None[:50] raises TypeError
RaisesPaperId ==
  /\ id_pc = "called"
  /\ NoIdentifier(id_paper)
  /\ id_paper.title = None
  /\ id_pc' = "raised"
  /\ UNCHANGED << id_paper, id_value >>
  /\ UNCHANGED << dedupVars, dlVars, rsVars, ldVars, sqVars >>

InitPaperId ==
  /\ id_paper \in IdRecords
  /\ id_value = <<>>
  /\ id_pc = "called"
  /\ DedupIdle
  /\ DlIdle
  /\ RsIdle
  /\ LdIdle
  /\ SqIdle

NextPaperId ==
  \/ ReturnsPaperId
  \/ RaisesPaperId

\* get_paper_id is called on a record of IdRecords
SpecPaperId == InitPaperId /\ [][NextPaperId]_vars

\* records of which two have different DOIs and one paper id: line 39
\* turns the "/" of "x/1" into the "_" that "x_1" has
CollidingRecords ==
  { DlPaper(Str(<<"x", "/", "1">>), Absent, Absent, Str(<<"a">>),
            Str(<<"u", ".", "p", "d", "f">>), Absent),
    DlPaper(Str(<<"x", "_", "1">>), Absent, Absent, Str(<<"c">>),
            Str(<<"w">>), Absent),
    DlPaper(Str(<<"y">>), Absent, Absent, Str(<<"d">>), Absent, Absent) }

CollidingLists == UNION { [1..n -> CollidingRecords] : n \in 0..MaxDownloads }

InitCollide == InitRun(CollidingLists, Concurrencies)

\* download_all on lists drawn from CollidingRecords
SpecCollide == InitCollide /\ [][NextDownload]_vars

\* ------------------------------------------------------------------------
\* run_searches.py: main and run_search
\* ------------------------------------------------------------------------

\* lines 54-58: the stems of the scripts of the searches list
Searches ==
  << "search_semantic_scholar", "search_arxiv", "search_google_scholar" >>

Providers == 1..Len(Searches)

\* the return codes of a subprocess that ends by itself
ExitCodes == {0, 1, 2}

\* a future of the executor: "running", "done" or "collected", and what
\* run_search returned
Future(st, ret) == [st |-> st, ret |-> ret]

Running == Future("running", <<>>)

\* line 76: sum(1 for _, code, _ in results if code == 0)
success_count(results) ==
  Cardinality({ n \in DOMAIN results : results[n][2] = 0 })

\* lines 29-30: the subprocess ends with `code`
Exits(p, code) ==
  /\ rs_pc = "pool"
  /\ rs_future[p] = Running
  /\ rs_future' = [rs_future EXCEPT
                     ![p] = Future("done", <<Searches[p], code, "stderr">>)]
  /\ rs_how' = [rs_how EXCEPT ![p] = IF code = 0 THEN "ok" ELSE "code"]
  /\ UNCHANGED << rs_results, rs_pc, rs_exit >>
  /\ UNCHANGED << dedupVars, dlVars, idVars, ldVars, sqVars >>

\* lines 31-32: the 300 s pass; TimeoutExpired is caught
TimesOut(p) ==
  /\ rs_pc = "pool"
  /\ rs_future[p] = Running
  /\ rs_future' = [rs_future EXCEPT
                     ![p] = Future("done", <<Searches[p], -1,
                                             "Timeout after 300 seconds">>)]
  /\ rs_how' = [rs_how EXCEPT ![p] = "timeout"]
  /\ UNCHANGED << rs_results, rs_pc, rs_exit >>
  /\ UNCHANGED << dedupVars, dlVars, idVars, ldVars, sqVars >>

\* lines 33-34: subprocess.run raises another exception
Raises(p) ==
  /\ rs_pc = "pool"
  /\ rs_future[p] = Running
  /\ rs_future' = [rs_future EXCEPT
                     ![p] = Future("done", <<Searches[p], -1, "str(e)">>)]
  /\ rs_how' = [rs_how EXCEPT ![p] = "exception"]
  /\ UNCHANGED << rs_results, rs_pc, rs_exit >>
  /\ UNCHANGED << dedupVars, dlVars, idVars, ldVars, sqVars >>

\* lines 66-68 keeping the successes only
Collect_successes_only(p) ==
  /\ rs_pc = "pool"
  /\ rs_future[p].st = "done"
  /\ rs_results' = IF rs_future[p].ret[2] = 0
                     THEN Append(rs_results, rs_future[p].ret)
                     ELSE rs_results
  /\ rs_future' = [rs_future EXCEPT ![p].st = "collected"]
  /\ UNCHANGED << rs_how, rs_pc, rs_exit >>
  /\ UNCHANGED << dedupVars, dlVars, idVars, ldVars, sqVars >>

\* lines 66-68: as_completed yields a finished future; its result is
\* appended
Collect(p) ==
  /\ rs_pc = "pool"
  /\ rs_future[p].st = "done"
  /\ rs_results' = Append(rs_results, rs_future[p].ret)
  /\ rs_future' = [rs_future EXCEPT ![p].st = "collected"]
  /\ UNCHANGED << rs_how, rs_pc, rs_exit >>
  /\ UNCHANGED << dedupVars, dlVars, idVars, ldVars, sqVars >>

\* lines 76-82 exiting with an error when some search failed
Exit_on_any_failure ==
  /\ rs_pc = "pool"
  /\ \A p \in Providers : rs_future[p].st = "collected"
  /\ rs_exit' = IF success_count(rs_results) < Len(Searches) THEN 1 ELSE 0
  /\ rs_pc' = "exited"
  /\ UNCHANGED << rs_how, rs_future, rs_results >>
  /\ UNCHANGED << dedupVars, dlVars, idVars, ldVars, sqVars >>

\* lines 76-82: as_completed is exhausted; main exits
Exit ==
  /\ rs_pc = "pool"
  /\ \A p \in Providers : rs_future[p].st = "collected"
  /\ rs_exit' = IF success_count(rs_results) = 0 THEN 1 ELSE 0
  /\ rs_pc' = "exited"
  /\ UNCHANGED << rs_how, rs_future, rs_results >>
  /\ UNCHANGED << dedupVars, dlVars, idVars, ldVars, sqVars >>

\* lines 60-65: the three calls are submitted
InitSearches ==
  /\ rs_how = [p \in Providers |-> "none"]
  /\ rs_future = [p \in Providers |-> Running]
  /\ rs_results = <<>>
  /\ rs_pc = "pool"
  /\ rs_exit = -1
  /\ DedupIdle
  /\ DlIdle
  /\ IdIdle
  /\ LdIdle
  /\ SqIdle

NextSearches ==
  \/ \E p \in Providers : \E code \in ExitCodes : Exits(p, code)
  \/ \E p \in Providers : TimesOut(p)
  \/ \E p \in Providers : Raises(p)
  \/ \E p \in Providers : Collect(p)
  \/ Exit

SpecSearches == InitSearches /\ [][NextSearches]_vars

\* ------------------------------------------------------------------------
\* dedup_papers.py: load_results_from_dir and main
\* ------------------------------------------------------------------------

\* a *.json file of an input directory: a JSON array, another JSON value,
\* or a file that json.load rejects
ListFile(data) == [kind |-> "list", data |-> data]
OtherFile == [kind |-> "other", data |-> <<>>]
InvalidFile == [kind |-> "invalid", data |-> <<>>]

\* the directories the --input-dir arguments are drawn from
InputDirs ==
  { << ListFile(<< Paper(Str(<<"d", "1">>), Absent, Str(<<"a", " ", "b">>)),
                   Paper(Str(<<"d", "2">>), Absent, Str(<<"a", "b">>)) >>) >>,
    << ListFile(<< Paper(Str(<<"D", "1">>), Absent, Str(<<"c", "b">>)) >>),
       OtherFile >>,
    << InvalidFile,
       ListFile(<< Paper(Absent, Absent,
                         Str(<<"B", " ", "\t", "a", "!">>)) >>) >>,
    << ListFile(<< Paper(Absent, Absent, Str(<<"A", " ", " ", "b", ".">>)),
                   Paper(Str(<<"d", "1">>), Absent,
                         Str(<<"a", " ", "b">>)) >>),
       ListFile(<< Paper(Num(7), Absent, Str(<<"a", "b">>)) >>) >>,
    << >> }

\* most --input-dir arguments of a run
MaxDirs == 2

\* lines 103-114: the papers of the files of a directory, the files taken
\* in the order `order` of glob; a file that is no list or does not load
\* is skipped
RECURSIVE LoadFiles(_, _, _)
LoadFiles(dir, order, n) ==
  IF n > Len(dir) THEN <<>>
  ELSE (IF dir[order[n]].kind = "list" THEN dir[order[n]].data ELSE <<>>)
       \o LoadFiles(dir, order, n + 1)

\* load_results_from_dir(input_dir), glob yielding the files in `order`
load_results_from_dir(dir, order) == LoadFiles(dir, order, 1)

\* lines 151-154 with insert at the front for extend
LoadDir_in_front(order) ==
  /\ ld_pc = "loading"
  /\ ld_next <= Len(ld_dirs)
  /\ LET loaded == load_results_from_dir(ld_dirs[ld_next], order)
     IN /\ ld_all' = loaded \o ld_all
        /\ ld_from' = [n \in 1..Len(loaded) |-> ld_next] \o ld_from
  /\ ld_next' = ld_next + 1
  /\ UNCHANGED << ld_dirs, ld_pc >>
  /\ UNCHANGED << dedupVars, dlVars, idVars, rsVars, sqVars >>

\* lines 151-154: the next directory is loaded and all_papers extended
LoadDir(order) ==
  /\ ld_pc = "loading"
  /\ ld_next <= Len(ld_dirs)
  /\ LET loaded == load_results_from_dir(ld_dirs[ld_next], order)
     IN /\ ld_all' = ld_all \o loaded
        /\ ld_from' = ld_from \o [n \in 1..Len(loaded) |-> ld_next]
  /\ ld_next' = ld_next + 1
  /\ UNCHANGED << ld_dirs, ld_pc >>
  /\ UNCHANGED << dedupVars, dlVars, idVars, rsVars, sqVars >>

\* line 159: deduplicate_papers(all_papers, args.threshold) is called
CallDedup ==
  /\ ld_pc = "loading"
  /\ ld_next > Len(ld_dirs)
  /\ ld_pc' = "dedup"
  /\ papers' = ld_all
  /\ input' = ld_all
  /\ pc' = "loop"
  /\ UNCHANGED << threshold, i, seen_dois, seen_titles, deduplicated,
                  duplicates_removed, call, kept, result1 >>
  /\ UNCHANGED << ld_dirs, ld_next, ld_all, ld_from >>
  /\ UNCHANGED << dlVars, idVars, rsVars, sqVars >>

\* lines 120-151: the arguments are parsed, the directories exist
InitMain ==
  /\ ld_dirs \in UNION { [1..n -> InputDirs] : n \in 1..MaxDirs }
  /\ ld_next = 1
  /\ ld_all = <<>>
  /\ ld_from = <<>>
  /\ ld_pc = "loading"
  /\ threshold \in Thresholds
  /\ papers = <<>>
  /\ input = <<>>
  /\ i = 1
  /\ seen_dois = {}
  /\ seen_titles = <<>>
  /\ deduplicated = <<>>
  /\ duplicates_removed = 0
  /\ kept = <<>>
  /\ pc = "idle"
  /\ call = 1
  /\ result1 = <<>>
  /\ DlIdle
  /\ IdIdle
  /\ RsIdle
  /\ SqIdle

\* line 103: the orders in which glob may yield the files of the next
\* directory
GlobOrders ==
  IF ld_next \in DOMAIN ld_dirs
    THEN Permutations(1..Len(ld_dirs[ld_next]))
    ELSE {}

NextMain ==
  \/ \E order \in GlobOrders : LoadDir(order)
  \/ CallDedup
  \/ DropByDoi
  \/ DropByTitle
  \/ Retain
  \/ RaiseError
  \/ Return

SpecMain == InitMain /\ [][NextMain]_vars

\* ------------------------------------------------------------------------
\* search_semantic_scholar.py, search_google_scholar.py: search_query
\* ------------------------------------------------------------------------

\* largest limit argument, and most results of a page
MaxLimit == 2

\* most GETs of a call that the model follows
MaxGets == 12

\* range(5) at line 33 of search_semantic_scholar.py, range(3) at line 54
\* of search_google_scholar.py
Attempts(client) == IF client = "s2" THEN 5 ELSE 3

\* client.get is called for `page` with loop variable `att`
Issue(page, att) ==
  /\ sq_gets < MaxGets
  /\ sq_gets' = sq_gets + 1
  /\ sq_page_gets' = IF page = sq_page THEN sq_page_gets + 1 ELSE 1
  /\ sq_page' = page
  /\ sq_attempt' = att
  /\ sq_pc' = "get"

\* `return results`
ReturnResults ==
  /\ sq_pc' = "returned"
  /\ UNCHANGED << sq_page, sq_attempt, sq_gets, sq_page_gets >>

\* s2 lines 45-49, gs lines 74-81: the answer is 429; after the sleep
\* `continue` takes the next attempt, and after the last attempt the for
\* loop is over, the while condition still holds and the for loop starts
\* again on the same page
RateLimited ==
  /\ sq_pc = "get"
  /\ Issue(sq_page,
           IF sq_attempt < Attempts(sq_client) - 1 THEN sq_attempt + 1 ELSE 0)
  /\ UNCHANGED << sq_client, sq_limit, sq_results >>
  /\ UNCHANGED << dedupVars, dlVars, idVars, rsVars, ldVars >>

\* s2 lines 67-79, gs lines 153-165: raise_for_status or the GET raises
\* before the last attempt; after the sleep the next attempt is made
FailsRetry ==
  /\ sq_pc = "get"
  /\ sq_attempt < Attempts(sq_client) - 1
  /\ Issue(sq_page, sq_attempt + 1)
  /\ UNCHANGED << sq_client, sq_limit, sq_results >>
  /\ UNCHANGED << dedupVars, dlVars, idVars, rsVars, ldVars >>

\* s2 lines 68-73, 76-78, gs lines 154-159, 162-164: the last attempt
\* raises
FailsLast ==
  /\ sq_pc = "get"
  /\ sq_attempt = Attempts(sq_client) - 1
  /\ ReturnResults
  /\ UNCHANGED << sq_client, sq_limit, sq_results >>
  /\ UNCHANGED << dedupVars, dlVars, idVars, rsVars, ldVars >>

\* gs lines 83-100: a 503 or a CAPTCHA page
Blocked ==
  /\ sq_pc = "get"
  /\ sq_client = "gs"
  /\ ReturnResults
  /\ UNCHANGED << sq_client, sq_limit, sq_results >>
  /\ UNCHANGED << dedupVars, dlVars, idVars, rsVars, ldVars >>

\* s2 lines 50-66, 32: a page of n papers; without "next", or with
\* `limit` results, the call returns, else the next page is requested
S2Page(n, more) ==
  /\ sq_pc = "get"
  /\ sq_client = "s2"
  /\ sq_results' = sq_results + n
  /\ IF more /\ sq_results + n < sq_limit
       THEN Issue(sq_page + 1, 0)
       ELSE ReturnResults
  /\ UNCHANGED << sq_client, sq_limit >>
  /\ UNCHANGED << dedupVars, dlVars, idVars, rsVars, ldVars >>

\* gs lines 90-151, 50: a page of n articles of which `titled` have a
\* title link; without articles, or with `limit` results, the call
\* returns, else the next page is requested
GsPage(n, titled) ==
  /\ sq_pc = "get"
  /\ sq_client = "gs"
  /\ titled <= n
  /\ sq_results' = sq_results + titled
  /\ IF n > 0 /\ sq_results + titled < sq_limit
       THEN Issue(sq_page + 1, 0)
       ELSE ReturnResults
  /\ UNCHANGED << sq_client, sq_limit >>
  /\ UNCHANGED << dedupVars, dlVars, idVars, rsVars, ldVars >>

\* s2 lines 29-35, gs lines 47-66: the call with a limit of 1 or more has
\* issued its first GET
InitQuery ==
  /\ sq_client \in {"s2", "gs"}
  /\ sq_limit \in 1..MaxLimit
  /\ sq_results = 0
  /\ sq_page = 0
  /\ sq_attempt = 0
  /\ sq_gets = 1
  /\ sq_page_gets = 1
  /\ sq_pc = "get"
  /\ DedupIdle
  /\ DlIdle
  /\ IdIdle
  /\ RsIdle
  /\ LdIdle

NextQuery ==
  \/ RateLimited
  \/ FailsRetry
  \/ FailsLast
  \/ Blocked
  \/ \E n \in 0..MaxLimit : \E more \in BOOLEAN : S2Page(n, more)
  \/ \E n \in 0..MaxLimit : \E titled \in 0..MaxLimit : GsPage(n, titled)

SpecQuery == InitQuery /\ [][NextQuery]_vars

\* ------------------------------------------------------------------------
\* Properties of deduplicate_papers
\* ------------------------------------------------------------------------

\* The DOI of a record as the specification reads it: the `doi` field, or
\* else `externalIds.DOI`, lower-cased; <<>> for a record without one.
DoiKey(r) ==
  IF Get(r.doi).t = "str" /\ r.doi.s # <<>> THEN Lower(r.doi.s)
  ELSE IF /\ ~Truthy(Get(r.doi))
          /\ r.externalIds.t = "map"
          /\ Get(r.externalIds.DOI).t = "str"
       THEN Lower(r.externalIds.DOI.s)
  ELSE <<>>

\* The normalized title of a record as the specification reads it:
\* lower-cased, punctuation replaced by spaces, whitespace collapsed.
TitleKey(r) ==
  IF Get(r.title).t = "str"
    THEN Join(Split(PunctToSpace(Lower(r.title.s))))
    ELSE <<>>

SameDoi(r1, r2) == DoiKey(r1) # <<>> /\ DoiKey(r1) = DoiKey(r2)

Similarity(r1, r2) == token_sort_ratio(TitleKey(r1), TitleKey(r2))

SimilarTitles(r1, r2) ==
  LET t1 == TitleKey(r1)
      t2 == TitleKey(r2)
  IN /\ t1 # <<>>
     /\ t2 # <<>>
     /\ RatGeq(token_sort_ratio(t1, t2), threshold)

\* identity-equivalent records
Equivalent(r1, r2) == SameDoi(r1, r2) \/ SimilarTitles(r1, r2)

Returned == pc = "returned"

Kept == { kept[j] : j \in 1..Len(kept) }

\* s is a subsequence of t, from position k of t on
RECURSIVE IsSubseqFrom(_, _, _)
IsSubseqFrom(s, t, k) ==
  IF s = <<>> THEN TRUE
  ELSE IF k > Len(t) THEN FALSE
  ELSE IF s[1] = t[k] THEN IsSubseqFrom(Tail(s), t, k + 1)
  ELSE IsSubseqFrom(s, t, k + 1)

\* the pairs of positions of the input whose records are
\* identity-equivalent
Linked ==
  { p \in (1..Len(input)) \X (1..Len(input)) :
      p[1] < p[2] /\ Equivalent(input[p[1]], input[p[2]]) }

\* the duplicate group of the input that holds `members`: the positions
\* reached from them by a chain of identity-equivalent records
RECURSIVE Group(_, _)
Group(members, links) ==
  LET more == { b \in 1..Len(input) :
                  \E a \in members : <<a, b>> \in links \/ <<b, a>> \in links }
  IN IF more \subseteq members THEN members ELSE Group(members \cup more, links)

\* C1: no two records of the output are identity-equivalent: no two have
\* the same DOI, and no two have non-empty normalized titles whose
\* similarity reaches the threshold.
C1_NoEquivalentPair ==
  Returned =>
    \A a, b \in 1..Len(deduplicated) :
      a < b => ~Equivalent(deduplicated[a], deduplicated[b])

\* a call that dropped duplicates and returned two records or more
C1_Witness ==
  /\ Returned
  /\ call = 1
  /\ Len(deduplicated) >= 2
  /\ \E a, b \in 1..Len(input) :
       /\ a < b
       /\ SameDoi(input[a], input[b])
  /\ \E a, b \in 1..Len(input) :
       /\ a < b
       /\ ~SameDoi(input[a], input[b])
       /\ SimilarTitles(input[a], input[b])

\* C2: the second call, on the output of the first, returns that output.
C2_Idempotent ==
  (Returned /\ call = 2) => deduplicated = result1

\* the second call returned a list of two records or more, with DOIs and
\* titles to compare
C2_Witness ==
  /\ Returned
  /\ call = 2
  /\ Len(result1) >= 2
  /\ \E a, b \in 1..Len(result1) :
       DoiKey(result1[a]) # <<>> /\ TitleKey(result1[b]) # <<>>

\* C3: at every point of the call the argument list is as it was passed,
\* and the result list is a subsequence of it.
C3_Subsequence ==
  pc \in {"loop", "returned", "raised"} =>
    /\ papers = input
    /\ IsSubseqFrom(deduplicated, input, 1)
    /\ Len(kept) = Len(deduplicated)
    /\ \A j \in 1..Len(kept) :
         /\ kept[j] \in 1..Len(input)
         /\ deduplicated[j] = input[kept[j]]
         /\ j > 1 => kept[j - 1] < kept[j]

\* a call returned two records or more after dropping one between them
C3_Witness ==
  /\ Returned
  /\ Len(kept) >= 2
  /\ \E j \in 2..Len(kept) : kept[j] > kept[j - 1] + 1
  /\ deduplicated[1] # deduplicated[2]

\* C4: the first record of every duplicate group of the input is retained.
C4_FirstSeenKept ==
  Returned =>
    LET links == Linked
    IN \A k \in 1..Len(input) :
         k \in Kept \/ \E j \in Group({k}, links) : j < k

\* a group of three records, linked only through its middle record, whose
\* first record is retained
C4_Witness ==
  /\ Returned
  /\ Len(input) = 3
  /\ Group({1}, Linked) = {1, 2, 3}
  /\ ~Equivalent(input[1], input[3])
  /\ Kept = {1}

\* C5: of two input records with the same DOI, at most one is retained.
C5_DoiPriority ==
  Returned =>
    \A a, b \in 1..Len(input) :
      (a < b /\ SameDoi(input[a], input[b])) => ~({a, b} \subseteq Kept)

\* two records with the same DOI in different letter case and dissimilar
\* titles, the first retained
C5_Witness ==
  /\ Returned
  /\ \E a, b \in 1..Len(input) :
       /\ a < b
       /\ SameDoi(input[a], input[b])
       /\ Get(input[a].doi) # Get(input[b].doi)
       /\ TitleKey(input[a]) # <<>>
       /\ TitleKey(input[b]) # <<>>
       /\ ~SimilarTitles(input[a], input[b])
       /\ a \in Kept
       /\ b \notin Kept

\* the DOI of record k is the DOI of no earlier input record
NewDoi(k) == \A j \in 1..(k - 1) : ~SameDoi(input[j], input[k])

\* C6: a record whose title similarity to a previously retained title is
\* exactly the threshold is dropped; a record with no previously seen DOI
\* and a similarity below the threshold to every previously retained title
\* is retained.
C6_ThresholdBoundary ==
  Returned =>
    \A k \in 1..Len(input) :
      /\ k \in Kept =>
           ~\E j \in Kept :
              /\ j < k
              /\ TitleKey(input[j]) # <<>>
              /\ TitleKey(input[k]) # <<>>
              /\ LET q == Similarity(input[j], input[k])
                 IN RatGeq(q, threshold) /\ RatGeq(threshold, q)
      /\ k \notin Kept =>
           \/ ~NewDoi(k)
           \/ \E j \in Kept : j < k /\ SimilarTitles(input[j], input[k])

\* a record dropped at a similarity equal to the threshold, with no DOI in
\* common, and a record retained just below it
C6_Witness ==
  /\ Returned
  /\ \E j, k \in 1..Len(input) :
       /\ j < k
       /\ j \in Kept
       /\ k \notin Kept
       /\ NewDoi(k)
       /\ TitleKey(input[j]) # <<>>
       /\ TitleKey(input[k]) # <<>>
       /\ Similarity(input[j], input[k])[1] * threshold[2]
            = threshold[1] * Similarity(input[j], input[k])[2]
  /\ \E j, k \in Kept :
       /\ j < k
       /\ TitleKey(input[j]) # <<>>
       /\ TitleKey(input[k]) # <<>>
       /\ Similarity(input[j], input[k])[1] > 0

\* C7: for a threshold of at most 1, two input records whose titles
\* normalize to the same non-empty string are never both retained; the
\* three-record example at threshold 0.85 returns its records 1 and 3.
C7_SameNormalizedTitle ==
  Returned =>
    /\ RatGeq(<<1, 1>>, threshold) =>
         \A a, b \in 1..Len(input) :
           (a < b /\ TitleKey(input[a]) # <<>>
                  /\ TitleKey(input[a]) = TitleKey(input[b]))
             => ~({a, b} \subseteq Kept)
    /\ (call = 1 /\ input = ExamplePapers /\ threshold = ExampleThreshold) =>
         deduplicated = << ExamplePapers[1], ExamplePapers[3] >>

\* the example has returned
C7_Witness ==
  /\ Returned
  /\ call = 1
  /\ input = ExamplePapers
  /\ threshold = ExampleThreshold
  /\ Len(deduplicated) = 2
  /\ duplicates_removed = 1

\* two records with differently written titles of the same normalized
\* form, the later one without a DOI, the first retained
C7_WitnessGeneral ==
  /\ Returned
  /\ RatGeq(<<1, 1>>, threshold)
  /\ \E a, b \in 1..Len(input) :
       /\ a < b
       /\ TitleKey(input[a]) # <<>>
       /\ TitleKey(input[a]) = TitleKey(input[b])
       /\ input[a].title # input[b].title
       /\ DoiKey(input[b]) = <<>>
       /\ a \in Kept
       /\ b \notin Kept

\* C8: deduplicate_papers never raises, whatever the fields of a record
\* hold.
C8_NeverRaises == pc # "raised"

\* ------------------------------------------------------------------------
\* Properties of download_all
\* ------------------------------------------------------------------------

\* A record has an extractable document URL, as the specification reads
\* it: a `pdf_url`, or an `openAccessPdf` that is a URL or holds one.
HasUrl(r) ==
  \/ Truthy(Get(r.pdf_url))
  \/ Get(r.openAccessPdf).t = "str" /\ Truthy(r.openAccessPdf)
  \/ /\ Get(r.openAccessPdf).t = "map"
     /\ Truthy(r.openAccessPdf)
     /\ Truthy(Get(r.openAccessPdf.url))

\* the target path of a record: output_dir / <artifact id>.pdf
TargetPath(k) == get_paper_id(dl_papers[k])

\* the step is the first step of task k
Starts(k) == task_pc[k] = "created" /\ task_pc'[k] # "created"

\* the counters and lists of stats other than `field` are unchanged
OnlyCounts(field) ==
  /\ stats'[field] = stats[field] + 1
  /\ \A f \in {"total", "downloaded", "skipped_no_url", "skipped_exists",
               "failed", "failed_papers"} \ {field} :
       stats'[f] = stats[f]

\* C9 (state): a record without URL never has a GET, holds no permit, and
\* ends as SkippedNoUrl; once all have started, each was counted once.
C9_NoUrlState ==
  /\ \A k \in Tasks :
       ~HasUrl(dl_papers[k]) =>
         /\ gets[k] = 0
         /\ task_pc[k] \in {"created", "done"}
         /\ outcome[k] = IF task_pc[k] = "done" THEN "SkippedNoUrl" ELSE "none"
  /\ started = Len(dl_papers) =>
       stats.skipped_no_url =
         Cardinality({ k \in Tasks : ~HasUrl(dl_papers[k]) })

\* C9 (step): the first step of a record without URL adds one to
\* skipped_no_url and changes no other counter, no list, no file, no GET
\* count and no permit.
C9_NoUrlStep ==
  \A k \in Tasks :
    (Starts(k) /\ ~HasUrl(dl_papers[k])) =>
      /\ OnlyCounts("skipped_no_url")
      /\ stats'.downloaded_files = stats.downloaded_files
      /\ files' = files
      /\ gets' = gets
      /\ semaphore' = semaphore
      /\ waiters' = waiters
      /\ task_pc'[k] = "done"

C10_ExistingState ==
  \A k \in Tasks :
    outcome[k] = "SkippedExisting" =>
      /\ gets[k] = 0
      /\ task_pc[k] = "done"
      /\ files[TargetPath(k)] = "old"

\* C10 (step): the first step of a record with a URL whose target path
\* exists ends it as SkippedExisting, adds one to skipped_exists, issues
\* no GET and leaves the files as they are.
C10_ExistingStep ==
  \A k \in Tasks :
    (/\ Starts(k)
     /\ HasUrl(dl_papers[k])
     /\ files[TargetPath(k)] # "none") =>
      /\ outcome'[k] = "SkippedExisting"
      /\ task_pc'[k] = "done"
      /\ OnlyCounts("skipped_exists")
      /\ files' = files
      /\ gets' = gets
      /\ semaphore' = semaphore
      /\ waiters' = waiters

\* C10: in download_all, a record with a URL whose target path exists ends
\* as SkippedExisting: no GET is issued for it, the existing file is left
\* unchanged, and skipped_exists is incremented once.
C10_SkippedExisting == [](C10_ExistingState) /\ [][C10_ExistingStep]_vars

\* the run returned with a record skipped for its existing file beside a
\* record that was downloaded
C10_Witness ==
  /\ dl_pc = "returned"
  /\ \E k, j \in Tasks :
       /\ outcome[k] = "SkippedExisting"
       /\ files[TargetPath(k)] = "old"
       /\ outcome[j] = "Downloaded"
       /\ files[TargetPath(j)] = "full"
       /\ stats.skipped_exists = 1

\* ------------------------------------------------------------------------
\* Properties of two runs on the same records and output directory
\* ------------------------------------------------------------------------

Finished == dl_pc \in {"returned", "saved"}

\* C11 as stated: the second run issues no GET and every record of it ends
\* as SkippedExisting.
C11_SecondRunAllSkipped ==
  run = 2 =>
    /\ \A k \in Tasks : gets[k] = 0
    /\ Finished => \A k \in Tasks : outcome[k] = "SkippedExisting"

\* C11: in the second run, every record that ended as Downloaded or
\* SkippedExisting in the first run ends as SkippedExisting with no GET, and
\* every record without URL ends as SkippedNoUrl again with no GET; the
\* second run issues no GET at all when no record of the first run failed.
C11_RerunSkipsFetched ==
  run = 2 =>
    /\ \A k \in Tasks :
         /\ outcome1[k] \in {"Downloaded", "SkippedExisting"} =>
              /\ gets[k] = 0
              /\ task_pc[k] \in {"created", "done"}
              /\ task_pc[k] = "done" => outcome[k] = "SkippedExisting"
         /\ outcome1[k] = "SkippedNoUrl" =>
              /\ gets[k] = 0
              /\ task_pc[k] \in {"created", "done"}
              /\ task_pc[k] = "done" => outcome[k] = "SkippedNoUrl"
    /\ (\A k \in Tasks : outcome1[k] # "Failed") =>
         \A k \in Tasks : gets[k] = 0

\* the second run returned: a record downloaded by the first run was
\* skipped, a record that had failed was fetched again
C11_Witness ==
  /\ run = 2
  /\ Finished
  /\ \E j, k \in Tasks :
       /\ outcome1[j] = "Downloaded"
       /\ outcome[j] = "SkippedExisting"
       /\ gets[j] = 0
       /\ outcome1[k] = "Failed"
       /\ gets[k] > 0

\* ------------------------------------------------------------------------
\* Properties of download_pdf: the retry sequence of one record
\* ------------------------------------------------------------------------

\* the URL of a record: `pdf_url`, or else `openAccessPdf` or its `url`
UrlOf(r) ==
  IF Truthy(Get(r.pdf_url)) THEN r.pdf_url.s
  ELSE IF Get(r.openAccessPdf).t = "map" THEN r.openAccessPdf.url.s
  ELSE r.openAccessPdf.s

EndsInPdf(r) == HasUrl(r) /\ EndsWith(UrlOf(r), <<".", "p", "d", "f">>)

\* 2^n
RECURSIVE TwoTo(_)
TwoTo(n) == IF n = 0 THEN 1 ELSE 2 * TwoTo(n - 1)

\* the backoff delays before attempts 2 .. n + 1
Delays(n) == [j \in 1..n |-> TwoTo(j - 1)]

\* the response of the last step was of kind `kind`, for task k
Got(k, kind) == reply = <<k, kind>>

\* download_pdf of task k has returned False
GaveUp(k) == task_pc[k] = "closing" /\ ~success[k]

\* the retry sequence of task k is over in this step: no GET, no sleep and
\* no file written from here on, and the record ends as Failed
Over(k) ==
  /\ (GaveUp(k) \/ task_pc[k] = "done") =>
       /\ gets'[k] = gets[k]
       /\ slept'[k] = slept[k]
       /\ task_pc'[k] \in {"closing", "done"}
  /\ (GaveUp(k) /\ task_pc'[k] # "closing") =>
       /\ task_pc'[k] = "done"
       /\ outcome'[k] = "Failed"
       /\ files' = files

\* C12 (state): after a 403, 404 or 451 the call has returned False; the
\* GETs are those of the attempts so far, one on the first attempt, and no
\* sleep was added.
C12_PermanentState ==
  \A k \in Tasks :
    Got(k, "permanent") =>
      /\ GaveUp(k)
      /\ gets[k] = attempt[k] + 1
      /\ slept[k] = Delays(attempt[k])
      /\ outcome[k] = "none"

\* C12 (step): the step that delivers the status writes no file, issues no
\* GET and starts no sleep; the retry sequence is over.
C12_PermanentStep ==
  \A k \in Tasks :
    /\ reply' = <<k, "permanent">> =>
         /\ files' = files
         /\ gets' = gets
         /\ slept' = slept
    /\ Over(k)

\* C12: a response with status 403, 404 or 451 ends the retry sequence of
\* the record at once: no further GET, no backoff sleep, no file written,
\* outcome Failed; on the first attempt that is exactly one GET.
C12_PermanentEndsRetries == [](C12_PermanentState) /\ [][C12_PermanentStep]_vars

\* a 404 on the first attempt, with no file at the target path
C12_Witness ==
  \E k \in Tasks :
    /\ Got(k, "permanent")
    /\ attempt[k] = 0
    /\ gets[k] = 1
    /\ slept[k] = <<>>
    /\ files[TargetPath(k)] = "none"

\* C13 (state): after a non-permanent error on attempt a (counted from 0)
\* the task sleeps 2^a seconds when a < 4, and after the fifth it has
\* returned False with five GETs and the delays 1, 2, 4, 8; no record has
\* more than five GETs.
C13_TransientState ==
  \A k \in Tasks :
    /\ gets[k] <= 5
    /\ Got(k, "transient") =>
         /\ gets[k] = attempt[k] + 1
         /\ IF attempt[k] < 4
              THEN /\ task_pc[k] = "sleep"
                   /\ slept[k] = Delays(attempt[k] + 1)
              ELSE /\ GaveUp(k)
                   /\ gets[k] = 5
                   /\ slept[k] = <<1, 2, 4, 8>>

\* C13 (step): the sleep is followed by the next GET of the record, and
\* nothing else; after the last attempt the retry sequence is over.
C13_TransientStep ==
  \A k \in Tasks :
    /\ (task_pc[k] = "sleep" /\ task_pc'[k] # "sleep") =>
         /\ task_pc'[k] = "get"
         /\ gets'[k] = gets[k] + 1
         /\ slept'[k] = slept[k]
    /\ Over(k)

\* C13: when every attempt fails with a non-permanent error, exactly 5
\* GETs are issued for the record, the delay before attempt k+1 is 2^k
\* seconds (1, 2, 4, 8), no sleep follows the last attempt and the outcome
\* is Failed.
C13_TransientBackoff == [](C13_TransientState) /\ [][C13_TransientStep]_vars

\* the fifth attempt of a record has failed with a non-permanent error
C13_Witness ==
  \E k \in Tasks :
    /\ Got(k, "transient")
    /\ attempt[k] = 4
    /\ gets[k] = 5
    /\ slept[k] = <<1, 2, 4, 8>>
    /\ task_pc[k] = "closing"

\* C14 (state): after an HTML response for a URL that does not end in
\* .pdf the call has returned False.
C14_HtmlState ==
  \A k \in Tasks :
    (Got(k, "html") /\ ~EndsInPdf(dl_papers[k])) =>
      /\ GaveUp(k)
      /\ gets[k] = attempt[k] + 1
      /\ slept[k] = Delays(attempt[k])

\* C14 (step): the step that delivers the page writes no file, issues no
\* GET and starts no sleep; the retry sequence is over.
C14_HtmlStep ==
  \A k \in Tasks :
    /\ (reply' = <<k, "html">> /\ ~EndsInPdf(dl_papers[k])) =>
         /\ files' = files
         /\ gets' = gets
         /\ slept' = slept
    /\ Over(k)

\* C14: a successful response whose content type is HTML, for a URL that
\* does not end in .pdf, ends the record as Failed at that attempt, with no
\* further GET and no file written at the target path.
C14_HtmlSoftFailure == [](C14_HtmlState) /\ [][C14_HtmlStep]_vars

\* an HTML page on the second attempt, with no file at the target path
C14_Witness ==
  \E k \in Tasks :
    /\ Got(k, "html")
    /\ ~EndsInPdf(dl_papers[k])
    /\ attempt[k] = 1
    /\ gets[k] = 2
    /\ files[TargetPath(k)] = "none"

\* ------------------------------------------------------------------------
\* Properties of download_all: the gate and the stats
\* ------------------------------------------------------------------------

\* the tasks between acquiring and releasing the semaphore: fetching,
\* writing, sleeping before a retry, closing the client, or woken with the
\* permit of the task that released it
Holding ==
  { k \in Tasks : task_pc[k] \in {"granted", "get", "write", "sleep", "closing"} }

\* C15: at every moment of a run the number of records between acquiring
\* and releasing the gate is at most max_concurrent, and with the free
\* permits it is max_concurrent.
C15_ConcurrencyBound ==
  dl_pc # "idle" =>
    /\ Cardinality(Holding) <= max_concurrent
    /\ Cardinality(Holding) + semaphore = max_concurrent
    /\ semaphore >= 0

\* the gate is full and a record waits for it
C15_Witness ==
  /\ dl_pc = "running"
  /\ waiters # <<>>
  /\ semaphore = 0
  /\ Cardinality(Holding) = max_concurrent
  /\ \E k \in Holding : task_pc[k] = "sleep"

\* the records with outcome `o`
With(o) == { k \in Tasks : outcome[k] = o }

\* the paths of the records k .. n whose outcome is `o`, in list order
RECURSIVE PathsInOrder(_, _)
PathsInOrder(k, o) ==
  IF k > Len(dl_papers) THEN <<>>
  ELSE (IF outcome[k] = o THEN <<TargetPath(k)>> ELSE <<>>)
       \o PathsInOrder(k + 1, o)

\* the entries of failed_papers of the records k .. n, in list order
RECURSIVE FailedInOrder(_)
FailedInOrder(k) ==
  IF k > Len(dl_papers) THEN <<>>
  ELSE (IF outcome[k] = "Failed"
          THEN << [id |-> TargetPath(k),
                   title |-> Get(dl_papers[k].title),
                   url |-> Str(UrlOf(dl_papers[k]))] >>
          ELSE <<>>)
       \o FailedInOrder(k + 1)

\* the stats of the run in which the tasks complete in list order
StatsInListOrder ==
  [total |-> Len(dl_papers),
   downloaded |-> Cardinality(With("Downloaded")),
   skipped_no_url |-> Cardinality(With("SkippedNoUrl")),
   skipped_exists |-> Cardinality(With("SkippedExisting")),
   failed |-> Cardinality(With("Failed")),
   downloaded_files |->
     PathsInOrder(1, "SkippedExisting") \o PathsInOrder(1, "Downloaded"),
   failed_papers |-> FailedInOrder(1)]

\* C16: for a record list and outcomes of the fetches, the stats that
\* download_all returns are those of every other completion order: they
\* are the stats of the run whose tasks complete in list order.
C16_StatsSameInEveryOrder ==
  dl_pc = "returned" => stats = StatsInListOrder

\* C17: every record that has ended has added one to the counter of its
\* outcome and to no other, and failed_papers has `failed` entries; when
\* download_all returns the four counters add up to total, the number of
\* records.
C17_NoLostUpdates ==
  dl_pc # "idle" =>
    /\ stats.total = Len(dl_papers)
    /\ stats.downloaded = Cardinality(With("Downloaded"))
    /\ stats.skipped_no_url = Cardinality(With("SkippedNoUrl"))
    /\ stats.skipped_exists = Cardinality(With("SkippedExisting"))
    /\ stats.failed = Cardinality(With("Failed"))
    /\ Len(stats.failed_papers) = stats.failed
    /\ Finished =>
         /\ \A k \in Tasks : outcome[k] # "none"
         /\ stats.total = stats.downloaded + stats.skipped_no_url
                            + stats.skipped_exists + stats.failed

\* download_all returned after two fetches that were in flight together,
\* one downloaded and one failed
C17_Witness ==
  /\ dl_pc = "returned"
  /\ max_concurrent = 2
  /\ stats.total = 2
  /\ stats.downloaded = 1
  /\ stats.failed = 1
  /\ Len(stats.failed_papers) = 1
  /\ outcome[1] = "Failed"
  /\ \A k \in Tasks : gets[k] > 1

\* C18: at every moment a file at a target path holds the complete content
\* that was fetched, and in a second run no record is SkippedExisting for a
\* partly written file.
C18_AtomicWrite ==
  /\ \A p \in Paths : files[p] # "partial"
  /\ run = 2 =>
       \A k \in Tasks :
         outcome[k] = "SkippedExisting" => files[TargetPath(k)] # "partial"

\* C19: two different records of the list never have the same target path,
\* so no path is being fetched or written by two tasks of a run and no path
\* is in downloaded_files twice.
C19_NoSharedPath ==
  \A j, k \in Tasks :
    (j < k /\ dl_papers[j] # dl_papers[k]) =>
      /\ TargetPath(j) # TargetPath(k)
      /\ ~(j \in Holding /\ k \in Holding /\ PathOf(j) = PathOf(k))
      /\ \A m, n \in DOMAIN stats.downloaded_files :
           m < n => stats.downloaded_files[m] # stats.downloaded_files[n]

\* ------------------------------------------------------------------------
\* Properties of get_paper_id
\* ------------------------------------------------------------------------

\* a field is present: it is a string that is not empty
Present(v) == v.t = "str" /\ v.s # <<>>

\* the field the priority rule takes the id from
SourceField(paper) ==
  IF Present(paper.doi) THEN "doi"
  ELSE IF Present(paper.arxiv_id) THEN "arxiv_id"
  ELSE IF Present(paper.post_id) THEN "post_id"
  ELSE IF Present(paper.paperId) THEN "paperId"
  ELSE "title"

\* the record with every field but `f` absent
Only(paper, f) == [g \in DOMAIN paper |-> IF g = f THEN paper[g] ELSE Absent]

StartsWith(s, pre) == Len(s) >= Len(pre) /\ SubSeq(s, 1, Len(pre)) = pre

OwnOutcome(k) ==
  IF ~HasUrl(dl_papers[k]) THEN "SkippedNoUrl"
  ELSE IF files[TargetPath(k)] = "old" THEN "SkippedExisting"
  ELSE IF success[k] THEN "Downloaded"
  ELSE "Failed"

C21_Terminal ==
  Finished => \A k \in Tasks : outcome[k] = OwnOutcome(k)

C24_BudgetState ==
  \A k \in Tasks :
    /\ gets[k] <= MAX_RETRIES
    /\ attempt[k] <= MAX_RETRIES - 1
    /\ task_pc[k] \in {"get", "write", "sleep"} =>
         /\ gets[k] = attempt[k] + 1
         /\ Len(slept[k]) =
              IF task_pc[k] = "sleep" THEN gets[k] ELSE gets[k] - 1

\* C24 (step): a GET of a record is issued only when no attempt of the
\* record is in progress: at its start or at the end of a backoff; a
\* timeout or other transient error issues no GET, leaves the attempt
\* number as it is and, unless it was the last attempt, is followed by
\* the backoff.
C24_BudgetStep ==
  \A k \in Tasks :
    /\ gets'[k] # gets[k] =>
         /\ gets'[k] = gets[k] + 1
         /\ task_pc[k] \in {"created", "granted", "sleep"}
         /\ task_pc'[k] = "get"
         /\ task_pc[k] = "sleep" <=> attempt'[k] = attempt[k] + 1
    /\ reply' = <<k, "transient">> =>
         /\ gets'[k] = gets[k]
         /\ attempt'[k] = attempt[k]
         /\ task_pc[k] = "get"
         /\ IF attempt[k] < MAX_RETRIES - 1
              THEN task_pc'[k] = "sleep"
              ELSE task_pc'[k] = "closing" /\ ~success'[k]

\* C24: at most 5 GETs are issued for a record in a run, one attempt at a
\* time, and a timed-out attempt uses one attempt of the budget and does
\* not end the retries of the record.
C24_RetryBudget == [](C24_BudgetState) /\ [][C24_BudgetStep]_vars

\* the fifth GET of a record is in flight after four backoffs
C24_Witness ==
  \E k \in Tasks :
    /\ task_pc[k] = "get"
    /\ gets[k] = MAX_RETRIES
    /\ Len(slept[k]) = MAX_RETRIES - 1

\* a file is at path p
Exists(p) == files[p] # "none"

\* the records of the list have a URL and different target paths
OwnPaths ==
  /\ \A k \in Tasks : HasUrl(dl_papers[k])
  /\ \A j, k \in Tasks : j # k => TargetPath(j) # TargetPath(k)

\* C28: when a run has ended a file is at the target path of a record if
\* and only if the record ended Downloaded or SkippedExisting; a Failed
\* record has no file at its path and is fetched again by the next run
\* (stated for lists of records that have a URL and a path of their own).
C28_FileIffFetched ==
  OwnPaths =>
    /\ Finished =>
         \A k \in Tasks :
           Exists(TargetPath(k)) <=>
             outcome[k] \in {"Downloaded", "SkippedExisting"}
    /\ (run = 2 /\ Finished) =>
         \A k \in Tasks :
           outcome1[k] = "Failed" => outcome[k] # "SkippedExisting"

\* the permits of the semaphore that are held
Held == max_concurrent - semaphore

\* C29 (state): the records between acquiring and releasing are as many as
\* the permits held, each has a URL and had no file at its path, a record
\* that was skipped, downloaded or failed holds none, and when
\* download_all has returned every permit is free.
C29_PermitState ==
  dl_pc # "idle" =>
    /\ Cardinality(Holding) = Held
    /\ \A k \in Holding :
         /\ HasUrl(dl_papers[k])
         /\ files[TargetPath(k)] # "old"
         /\ outcome[k] = "none"
    /\ \A k \in Tasks : outcome[k] # "none" => task_pc[k] = "done"
    /\ Finished => (semaphore = max_concurrent /\ waiters = <<>>)

\* C29 (step): a record that reaches Downloaded or Failed gives its permit
\* back in that step, to the first waiting record or to the semaphore; a
\* record that is skipped leaves the semaphore and the waiters alone.
C29_PermitStep ==
  \A k \in Tasks :
    /\ (outcome[k] = "none" /\ outcome'[k] \in {"Downloaded", "Failed"}) =>
         /\ k \in Holding
         /\ task_pc'[k] = "done"
         /\ IF waiters = <<>>
              THEN semaphore' = semaphore + 1 /\ waiters' = waiters
              ELSE /\ semaphore' = semaphore
                   /\ waiters' = Tail(waiters)
                   /\ task_pc'[Head(waiters)] = "granted"
    /\ (outcome[k] = "none"
          /\ outcome'[k] \in {"SkippedNoUrl", "SkippedExisting"}) =>
         /\ k \notin Holding
         /\ semaphore' = semaphore
         /\ waiters' = waiters

\* C29: a permit is acquired only by a record with a URL and no file, it
\* is released when the record reaches Downloaded or Failed, and every
\* permit is free when download_all returns.
C29_NoPermitLeak == [](C29_PermitState) /\ [][C29_PermitStep]_vars

\* download_all has returned with every permit free after a record waited
\* for the permit of a record that failed
C29_Witness ==
  /\ dl_pc = "returned"
  /\ max_concurrent = 1
  /\ semaphore = 1
  /\ Len(dl_papers) = 2
  /\ outcome[1] = "Failed"
  /\ gets[1] = 1
  /\ outcome[2] = "Downloaded"

\* ------------------------------------------------------------------------
\* Properties of run_searches
\* ------------------------------------------------------------------------

\* the providers whose subprocess ended with return code 0
Succeeded == { p \in Providers : rs_how[p] = "ok" }

\* C22: main exits with a status other than 0 if and only if no provider
\* succeeded; with one success or more it exits 0, in every completion
\* order.
C22_ExitStatus ==
  rs_pc = "exited" =>
    /\ rs_exit # 0 <=> Succeeded = {}
    /\ Succeeded # {} => rs_exit = 0

\* main exits 0 although two providers failed, the one that succeeded
\* being collected last
C22_Witness ==
  /\ rs_pc = "exited"
  /\ rs_exit = 0
  /\ Cardinality(Succeeded) = 1
  /\ rs_results[Len(Searches)][2] = 0
  /\ \E p \in Providers : rs_how[p] = "timeout"

\* the results collected for provider p
ResultsOf(p) == { n \in DOMAIN rs_results : rs_results[n][1] = Searches[p] }

\* C23: a provider that times out or raises is collected as (name, -1,
\* diagnostic) like any other; the orchestrator goes on, and when it
\* decides its exit status it has one result for every submitted task.
C23_OneResultEach ==
  /\ rs_pc # "idle" =>
       \A p \in Providers :
         /\ Cardinality(ResultsOf(p)) =
              (IF rs_future[p].st = "collected" THEN 1 ELSE 0)
         /\ \A n \in ResultsOf(p) :
              /\ rs_how[p] = "timeout" =>
                   rs_results[n] =
                     <<Searches[p], -1, "Timeout after 300 seconds">>
              /\ rs_how[p] = "exception" =>
                   (rs_results[n][2] = -1 /\ rs_results[n][3] # "stderr")
  /\ rs_pc = "exited" =>
       /\ Len(rs_results) = Len(Searches)
       /\ \A p \in Providers : Cardinality(ResultsOf(p)) = 1
       /\ rs_exit \in {0, 1}

\* main has exited after the first provider timed out and the second
\* raised
C23_Witness ==
  /\ rs_pc = "exited"
  /\ rs_how[1] = "timeout"
  /\ rs_how[2] = "exception"
  /\ rs_results[1][2] = -1
  /\ rs_how[3] = "ok"

\* ------------------------------------------------------------------------
\* Properties of deduplicate_papers: what is dropped, what is seen
\* ------------------------------------------------------------------------

\* the input positions that were dropped
Dropped == (1..Len(input)) \ Kept

\* C25 as stated: every dropped record is identity-equivalent to a record
\* of the output.
C25_DroppedHasRetainedEquivalent ==
  Returned =>
    \A k \in Dropped : \E j \in Kept : Equivalent(input[k], input[j])

\* record k has the DOI of an earlier record m that was dropped for its
\* title, which is similar to that of an earlier retained record
ThroughDropped(k) ==
  \E m \in Dropped :
    /\ m < k
    /\ SameDoi(input[k], input[m])
    /\ \E j \in Kept : j < m /\ SimilarTitles(input[m], input[j])

\* C25: every dropped record has the DOI or a similar title of an earlier
\* retained record, or the DOI of an earlier record that was dropped
\* because its title is similar to that of an earlier retained record.
C25_DroppedHasRepresentative ==
  Returned =>
    \A k \in Dropped :
      \/ \E j \in Kept : j < k /\ Equivalent(input[k], input[j])
      \/ ThroughDropped(k)

\* a record was dropped for the DOI of a dropped record and is equivalent
\* to no record of the output
C25_Witness ==
  /\ Returned
  /\ \E k \in Dropped :
       /\ ThroughDropped(k)
       /\ \A j \in Kept : ~Equivalent(input[k], input[j])

\* the non-empty normalized titles of the records kept[n..], in order
RECURSIVE TitlesOfKept(_)
TitlesOfKept(n) ==
  IF n > Len(kept) THEN <<>>
  ELSE LET t == TitleKey(input[kept[n]])
       IN (IF t = <<>> THEN <<>> ELSE <<t>>) \o TitlesOfKept(n + 1)

\* C26: seen_titles is the list of the non-empty normalized titles of the
\* records retained so far, in the order they were retained, so a dropped
\* record leaves it as it was; a record whose DOI was seen is dropped
\* whatever its title is, and a record without DOI whose normalized title
\* is empty is retained.
C26_SeenTitles ==
  pc \in {"loop", "returned"} =>
    /\ seen_titles = TitlesOfKept(1)
    /\ \A k \in 1..(i - 1) :
         /\ (\E j \in 1..(k - 1) : SameDoi(input[k], input[j])) => k \in Dropped
         /\ (DoiKey(input[k]) = <<>> /\ TitleKey(input[k]) = <<>>) => k \in Kept

\* a record whose title is no string was dropped for its DOI, and after
\* it a record was dropped for its title, with one title seen
C26_Witness ==
  /\ pc = "returned"
  /\ Len(input) = 3
  /\ Len(seen_titles) = 1
  /\ Kept = {1}
  /\ input[2].title.t = "num"
  /\ SimilarTitles(input[3], input[1])
  /\ ~SameDoi(input[3], input[1])

\* ------------------------------------------------------------------------
\* Properties of the main of dedup_papers.py
\* ------------------------------------------------------------------------

\* how many times record r is among the records of all_papers that were
\* loaded from directory d
Loaded(r, d) ==
  Cardinality({ n \in DOMAIN ld_all : ld_all[n] = r /\ ld_from[n] = d })

\* how many times record r is in the JSON arrays of directory d
RECURSIVE InArrays(_, _, _)
InArrays(r, d, f) ==
  IF f > Len(ld_dirs[d]) THEN 0
  ELSE Cardinality({ n \in DOMAIN ld_dirs[d][f].data :
                       ld_dirs[d][f].data[n] = r })
       + InArrays(r, d, f + 1)

\* no record before position j of the input is identity-equivalent to it
FirstOfItsKind(j) ==
  \A h \in 1..(j - 1) : ~Equivalent(input[h], input[j])

C30_PageAttemptsBounded ==
  sq_pc # "idle" => sq_page_gets <= Attempts(sq_client)

====
